---- MODULE Spec2Model ----
(***************************************************************************)
(* SecOps-Buddy: the snapshot/diff engine, the snapshot store, the         *)
(* notification engine and the run.py supervisor, modelled from the Python *)
(* sources.  Each subsystem has its own specification over the shared      *)
(* variables; the variables of the other subsystems stay at their idle     *)
(* values.                                                                 *)
(*    SpecDiff    agent._diff applied to pairs of snapshots                *)
(*    SpecStore   agent._write_json racing agent._read_json on latest.json *)
(*    SpecNotify  sampling cycles of the notification engine               *)
(*    SpecSup     run.py: start, daemonize, tasks, stop, relaunch          *)
(*    SpecSupFair SpecSup with the event loop's fairness                   *)
(*    SpecCycle   agent.run, one sampling cycle step by step               *)
(*    SpecInterval the sampling interval computed by run.py                *)
(*    SpecControl Path.write_text on the pid file and the restart marker   *)
(*    SpecBot     the query service: routing, access control, file access  *)
(***************************************************************************)
EXTENDS Integers, Sequences, FiniteSets, TLC

VARIABLES
    \* ---- diff engine
    dprev,      \* previous snapshot handed to _diff: [present, doc]
    dcur,       \* current snapshot handed to _diff (a dict)
    dout,       \* the value _diff returned
    dpc,        \* "ready" | "done"
    \* ---- snapshot store
    dir,        \* directory: file name -> inode number (0 = no such name)
    inodes,     \* inode number -> sequence of chunks written so far
    nextInode,  \* next unused inode number
    wpc,        \* writer position in _write_json
    wver,       \* version of the document the writer is writing
    wpos,       \* chunks of it written so far
    wino,       \* inode the writer holds open
    committed,  \* version last made visible under latest.json (0 = none)
    rpc,        \* reader position in _read_json
    rino,       \* inode the reader holds open
    rbuf,       \* chunks the reader has read
    rstart,     \* committed version when the reader began
    rres,       \* what _read_json returned: [ok, ver]
    \* ---- notification engine
    engine,     \* "agent" (agent._notify) | "manager" (NotificationManager)
    nst,        \* notify_state.json as _read_state returns it
    nstPrev,    \* notify_state.json at the start of the last cycle
    ncur,       \* snapshot of the last cycle
    ncfg,       \* configuration and environment of the last cycle
    nmsgs,      \* alerts the last cycle built
    natt,       \* send attempts of the last cycle, in order
    nran,       \* the last cycle got past the early returns
    nwrote,     \* the last cycle rewrote notify_state.json
    nwfail,     \* writing notify_state.json raised in the last cycle
    nraised,    \* an exception left the engine in the last cycle
    nsame,      \* the last cycle saw the same snapshot as the one before it
    nprevWrote, \* the cycle before the last one rewrote notify_state.json
    ncycles,    \* cycles run
    \* ---- supervisor (run.py)
    argv,       \* parsed command line: [config, once, no_agent, foreground]
    cwd,        \* working directory of the service process
    envDaemon,  \* SECOPS_BUDDY_DAEMON == "1" in its environment
    envRoot,    \* SECOPS_BUDDY_ROOT in its environment, <<>> when unset
    pid,        \* process id of the service process
    parent,     \* pid of a daemonizing parent still alive, else 0
    livePids,   \* process ids alive
    spc,        \* position of the service process in run.py
    cfgPath,    \* module-level cfg_path, <<>> before it is computed
    stop,       \* asyncio.Event stop
    restart,    \* asyncio.Event restart
    agentT,     \* _agent_loop_with_stop task
    botT,       \* run_bot task
    watchT,     \* watch_restart_flag task
    worker,     \* the thread running run_agent: "idle" | "early" | "persist"
    flagMtime,  \* mtime of restart.flag, 0 when the file is absent
    watchLast,  \* the watcher's last
    sigs,       \* signals delivered so far
    launch,     \* how the current image was started, and what started it
    polls,      \* parity of the polling rounds run_bot has made
    stopBy,     \* what first set stop in this image, "none" before that
    pyUnified,  \* asyncio.TimeoutError is the builtin TimeoutError (Python 3.11 on)
    cfgOk,      \* the configuration document exists and holds a mapping
    lastCycle,  \* "ok" | "raised": how the last cycle ended, "none" once a wait or a new cycle followed it
    inflight,   \* threads running run_agent in the service process
    exitCode,   \* exit status of the service process, -1 while it runs
    parentCode, \* exit status of the daemonizing parent, -1 before it exits
    forks,      \* launch kinds of the images that took the daemonizing path
    \* ---- one sampling cycle (agent.run)
    cpc,        \* position in run
    ccfg,       \* checks section, notifications.enabled, token and recipients
    chost,      \* the host as the probes meet it
    cfiles,     \* latest snapshot and notify_state.json when the cycle starts
    cprev,      \* prev, as _read_json returned it
    cst,        \* st, as _read_state returned it
    cprobe,     \* probes of _collect_snapshot passed so far
    csnap,      \* the snapshot being collected: category -> status
    cdiff,      \* diff
    clog,       \* what the cycle has done so far, in order
    cwritten,   \* files the cycle has written
    cerr,       \* where an exception left run: "" | "read" | "probe"
    \* ---- the sampling interval (run.py 120-125)
    icfg,       \* monitor_interval_seconds as the configuration holds it
    ival,       \* interval_s
    ipc,        \* "load" | "done"
    \* ---- the control files (pid file, restart marker)
    ffiles,     \* file name -> [present, text]
    fpc,        \* writer position in Path.write_text: "idle" | "opened"
    fname,      \* the file the writer has open
    ftext,      \* the text the writer is about to write
    fseen,      \* what the last reader got
    fwrites,    \* writes started so far
    \* ---- the query service (bot)
    bfiles,     \* latest snapshot, latest diff, notify_state.json: version or "none"
    ballowed,   \* the allowed-user set
    bmsg,       \* the inbound message handled last
    breply,     \* what was answered to it
    bcount      \* messages handled so far

diffVars  == <<dprev, dcur, dout, dpc>>
storeVars == <<dir, inodes, nextInode, wpc, wver, wpos, wino, committed,
               rpc, rino, rbuf, rstart, rres>>
supVars == <<argv, cwd, envDaemon, envRoot, pid, parent, livePids, spc, cfgPath,
             stop, restart, agentT, botT, watchT, worker, flagMtime, watchLast,
             sigs, launch, forks, polls, stopBy, pyUnified, cfgOk, lastCycle,
             inflight, exitCode, parentCode>>
notifyVars == <<engine, nst, nstPrev, ncur, ncfg, nmsgs, natt, nran, nwrote, nwfail,
                nraised, nsame, nprevWrote, ncycles>>
cycleVars == <<cpc, ccfg, chost, cfiles, cprev, cst, cprobe, csnap, cdiff, clog,
               cwritten, cerr>>
intervalVars == <<icfg, ival, ipc>>
controlVars == <<ffiles, fpc, fname, ftext, fseen, fwrites>>
botVars == <<bfiles, ballowed, bmsg, breply, bcount>>
auxVars == <<intervalVars, controlVars, botVars>>
vars == <<diffVars, storeVars, notifyVars, supVars, cycleVars, auxVars>>

(***************************************************************************)
(* Generic helpers                                                         *)
(***************************************************************************)
Digit(n) == <<"0", "1", "2", "3", "4", "5", "6", "7", "8", "9">>[n + 1]

\* str(n) for the small naturals the model formats
DecStr(n) == IF n < 10 THEN Digit(n) ELSE Digit(n \div 10) \o Digit(n % 10)

(***************************************************************************)
(* Diff engine: agent._diff                                                *)
(***************************************************************************)
\* JSON null / Python None, as a category value
Null == "null"

DiffKeys == {"meta", "ports", "ssh", "users"}
DiffVals == {"v1", "v2", Null}

\* dicts with keys among DiffKeys
Docs == UNION {[K -> DiffVals] : K \in SUBSET DiffKeys}

EmptyDoc == [k \in {} |-> Null]

\* what the pipeline hands to _diff as prev: None, or the dict read back
NoPrev == [present |-> FALSE, doc |-> EmptyDoc]
Prevs == {NoPrev} \cup {[present |-> TRUE, doc |-> d] : d \in Docs}

\* dict.get(k): None for a missing key
Get(d, k) == IF k \in DOMAIN d THEN d[k] ELSE Null

\* `not prev`: None and the empty dict are both falsy
Falsy(prev) == ~prev.present \/ DOMAIN prev.doc = {}

\* Mutant of DiffChanged: the removed-keys loop also runs for keys still present
DiffChangedAll(prev, cur) ==
    [k \in (DOMAIN cur \cup DOMAIN prev) \ {"meta"} |->
        [before |-> Get(prev, k), after |-> Get(cur, k)]]

\* Mutant of DiffChanged: only the loop over the keys of cur
DiffChangedCurOnly(prev, cur) ==
    [k \in {x \in DOMAIN cur \ {"meta"} : Get(prev, x) # cur[x]} |->
        [before |-> Get(prev, k), after |-> cur[k]]]

\* Mutant of DiffChanged: neither loop skips meta
DiffChangedWithMeta(prev, cur) ==
    LET changedCur == {k \in DOMAIN cur : Get(prev, k) # cur[k]}
        removed    == {k \in DOMAIN prev : k \notin DOMAIN cur}
    IN  [k \in changedCur \cup removed |->
            IF k \in removed
            THEN [before |-> Get(prev, k), after |-> Null]
            ELSE [before |-> Get(prev, k), after |-> cur[k]]]

\* the two loops of _diff: keys of cur whose value differs, then keys only in prev
DiffChanged(prev, cur) ==
    LET changedCur == {k \in DOMAIN cur \ {"meta"} : Get(prev, k) # cur[k]}
        removed    == {k \in DOMAIN prev \ {"meta"} : k \notin DOMAIN cur}
    IN  [k \in changedCur \cup removed |->
            IF k \in removed
            THEN [before |-> Get(prev, k), after |-> Null]
            ELSE [before |-> Get(prev, k), after |-> cur[k]]]

\* Mutant of Diff: `prev = prev or {}` instead of the early return
DiffNoEarlyReturn(prev, cur) ==
    LET changed == DiffChanged(IF Falsy(prev) THEN EmptyDoc ELSE prev.doc, cur)
        n == Cardinality(DOMAIN changed)
    IN  [status  |-> IF n = 0 THEN "ok" ELSE "warn",
         details |-> IF n = 0 THEN "no_changes" ELSE "changed=" \o DecStr(n),
         data    |-> [changed |-> changed]]

\* Mutant of Diff: the status compares the whole documents, meta included
DiffStatusWholeDoc(prev, cur) ==
    IF Falsy(prev)
    THEN [status |-> "ok", details |-> "no_previous_snapshot",
          data |-> [changed |-> EmptyDoc]]
    ELSE LET changed == DiffChanged(prev.doc, cur)
             n == Cardinality(DOMAIN changed)
         IN  [status  |-> IF prev.doc = cur THEN "ok" ELSE "warn",
              details |-> IF n = 0 THEN "no_changes" ELSE "changed=" \o DecStr(n),
              data    |-> [changed |-> changed]]

Diff(prev, cur) ==
    IF Falsy(prev)
    THEN [status |-> "ok", details |-> "no_previous_snapshot",
          data |-> [changed |-> EmptyDoc]]
    ELSE LET changed == DiffChanged(prev.doc, cur)
             n == Cardinality(DOMAIN changed)
         IN  [status  |-> IF n = 0 THEN "ok" ELSE "warn",
              details |-> IF n = 0 THEN "no_changes" ELSE "changed=" \o DecStr(n),
              data    |-> [changed |-> changed]]

NoDiff == [status |-> "", details |-> "", data |-> [changed |-> EmptyDoc]]

DiffInit ==
    /\ dprev \in Prevs
    /\ dcur \in Docs
    /\ dout = NoDiff
    /\ dpc = "ready"

DiffIdle ==
    /\ dprev = NoPrev
    /\ dcur = EmptyDoc
    /\ dout = NoDiff
    /\ dpc = "ready"

\* diff = _diff(prev, cur)
DiffStep ==
    /\ dpc = "ready"
    /\ dout' = Diff(dprev, dcur)
    /\ dpc' = "done"
    /\ UNCHANGED <<dprev, dcur>>

(***************************************************************************)
(* Snapshot store: agent._write_json / agent._read_json on                 *)
(* snapshots/latest.json.  The file system is a directory of names bound   *)
(* to inodes; an open file stays bound to its inode when the name is       *)
(* re-bound by a rename.                                                   *)
(***************************************************************************)
DocLen == 2         \* chunks (write/read system calls) per document
MaxVersion == 3     \* documents written in one behaviour

Path == "latest"

\* Mutant of TmpPath: the document is written in place
TmpPathInPlace == Path

\* tmp = path.with_suffix(path.suffix + ".tmp")
TmpPath == "tmp"

FileNames == {"latest", "tmp"}

\* the serialized document of version v, chunk by chunk
Doc(v) == [i \in 1..DocLen |-> v]

\* json.load: the version of a complete document, 0 when the text does not parse
Parse(buf) ==
    IF \E v \in 1..MaxVersion : buf = Doc(v)
    THEN CHOOSE v \in 1..MaxVersion : buf = Doc(v)
    ELSE 0

None == [ok |-> FALSE, ver |-> 0]

StoreInit ==
    /\ committed \in {0, 1}
    /\ dir = [n \in FileNames |-> IF n = Path /\ committed = 1 THEN 1 ELSE 0]
    /\ inodes = IF committed = 1 THEN <<Doc(1)>> ELSE <<>>
    /\ nextInode = IF committed = 1 THEN 2 ELSE 1
    /\ wpc = "idle" /\ wver = committed /\ wpos = 0 /\ wino = 0
    /\ rpc = "idle" /\ rino = 0 /\ rbuf = <<>> /\ rstart = 0 /\ rres = None

StoreIdle ==
    /\ committed = 0
    /\ dir = [n \in FileNames |-> 0]
    /\ inodes = <<>>
    /\ nextInode = 1
    /\ wpc = "idle" /\ wver = 0 /\ wpos = 0 /\ wino = 0
    /\ rpc = "idle" /\ rino = 0 /\ rbuf = <<>> /\ rstart = 0 /\ rres = None

\* with tmp.open("w"): create the name, or truncate the inode it is bound to
WOpen ==
    /\ wpc = "idle"
    /\ wver < MaxVersion
    /\ wver' = wver + 1
    /\ IF dir[TmpPath] = 0
       THEN /\ inodes' = Append(inodes, <<>>)
            /\ dir' = [dir EXCEPT ![TmpPath] = nextInode]
            /\ wino' = nextInode
            /\ nextInode' = nextInode + 1
       ELSE /\ inodes' = [inodes EXCEPT ![dir[TmpPath]] = <<>>]
            /\ wino' = dir[TmpPath]
            /\ UNCHANGED <<dir, nextInode>>
    /\ wpos' = 0
    /\ wpc' = "writing"
    /\ UNCHANGED <<committed, rpc, rino, rbuf, rstart, rres>>

\* json.dump(payload, f): one more chunk reaches the file
WWrite ==
    /\ wpc = "writing"
    /\ wpos < DocLen
    /\ inodes' = [inodes EXCEPT ![wino] = Append(@, Doc(wver)[wpos + 1])]
    /\ wpos' = wpos + 1
    /\ UNCHANGED <<dir, nextInode, wpc, wver, wino, committed,
                   rpc, rino, rbuf, rstart, rres>>

\* the with block ends: the file is closed
WClose ==
    /\ wpc = "writing"
    /\ wpos = DocLen
    /\ wpc' = "closed"
    /\ UNCHANGED <<dir, inodes, nextInode, wver, wpos, wino, committed,
                   rpc, rino, rbuf, rstart, rres>>

\* the write raises (disk full, ...): the exception leaves _write_json,
\* the partly written temporary file stays behind
WFail ==
    /\ wpc = "writing"
    /\ wpc' = "idle"
    /\ wino' = 0
    /\ UNCHANGED <<dir, inodes, nextInode, wver, wpos, committed,
                   rpc, rino, rbuf, rstart, rres>>

\* tmp.replace(path): the name path is re-bound to tmp's inode, atomically
WReplace ==
    /\ wpc = "closed"
    /\ dir' = IF TmpPath = Path THEN dir
              ELSE [dir EXCEPT ![Path] = dir[TmpPath], ![TmpPath] = 0]
    /\ committed' = wver
    /\ wpc' = "idle"
    /\ wino' = 0
    /\ UNCHANGED <<inodes, nextInode, wver, wpos, rpc, rino, rbuf, rstart, rres>>

\* if not path.exists(): return None
RExists ==
    /\ rpc = "idle"
    /\ rstart' = committed
    /\ rbuf' = <<>>
    /\ IF dir[Path] = 0
       THEN rpc' = "done" /\ rres' = None
       ELSE rpc' = "open" /\ rres' = rres
    /\ rino' = 0
    /\ UNCHANGED <<dir, inodes, nextInode, wpc, wver, wpos, wino, committed>>

\* path.open("r"): binds the reader to the inode the name has now
ROpen ==
    /\ rpc = "open"
    /\ IF dir[Path] = 0
       THEN rpc' = "done" /\ rres' = None /\ rino' = 0
       ELSE rpc' = "read" /\ rres' = rres /\ rino' = dir[Path]
    /\ UNCHANGED <<dir, inodes, nextInode, wpc, wver, wpos, wino, committed,
                   rbuf, rstart>>

\* json.load(f) reads on: the next chunk of the open inode, or end of file
RRead ==
    /\ rpc = "read"
    /\ IF Len(rbuf) < Len(inodes[rino])
       THEN rbuf' = Append(rbuf, inodes[rino][Len(rbuf) + 1]) /\ rpc' = rpc
       ELSE rbuf' = rbuf /\ rpc' = "parse"
    /\ UNCHANGED <<dir, inodes, nextInode, wpc, wver, wpos, wino, committed,
                   rino, rstart, rres>>

\* json.load parses what was read; except Exception: return None
RParse ==
    /\ rpc = "parse"
    /\ rres' = IF Parse(rbuf) = 0 THEN None ELSE [ok |-> TRUE, ver |-> Parse(rbuf)]
    /\ rpc' = "done"
    /\ rino' = 0
    /\ UNCHANGED <<dir, inodes, nextInode, wpc, wver, wpos, wino, committed,
                   rbuf, rstart>>

\* the next query (or the next cycle) reads again
RAgain ==
    /\ rpc = "done"
    /\ rpc' = "idle"
    /\ UNCHANGED <<dir, inodes, nextInode, wpc, wver, wpos, wino, committed,
                   rino, rbuf, rstart, rres>>

(***************************************************************************)
(* Probes and the snapshot handed to the notification engine.              *)
(* A host state is what the probes' commands report; the check_* functions *)
(* turn it into the {status, details, data} records of the snapshot.       *)
(* JSON values carry a kind tag k ("dict", "list", "int", "str", "bool",   *)
(* "null", "absent" for a missing key) next to their payload, so that the  *)
(* isinstance tests of the engine are tests of k.                          *)
(***************************************************************************)
Min(a, b) == IF a < b THEN a ELSE b

\* s[:n]
Take(s, n) == SubSeq(s, 1, Min(n, Len(s)))

SeqToSet(s) == {s[i] : i \in DOMAIN s}

RECURSIVE NatStr(_)
\* str(n) for a natural number
NatStr(n) == IF n < 10 THEN Digit(n) ELSE NatStr(n \div 10) \o Digit(n % 10)

RulesCap == 200     \* rules[:200] in check_firewall and in build_next_state
RuleSlack == 2      \* rules a host may have beyond RulesCap

\* firewall rule texts "r001", "r002", ... in sorted() order
RuleName(i) == "r" \o Digit(i \div 100) \o Digit((i \div 10) % 10) \o Digit(i % 10)

IpCap == 10         \* new_ips[:10] in the address alert
PortCap == 15       \* added[:15] and removed[:15] in the port alert
SudoCap == 20       \* new_sudo[:20] in the privileged-user alert

\* the addresses "10.0.9.01", "10.0.9.02", ... of a busy login day
IpName(i) == "10.0.9." \o Digit(i \div 10) \o Digit(i % 10)

\* the members "m01", "m02", ... of a large sudo group
UserName(i) == "m" \o Digit(i \div 10) \o Digit(i % 10)

\* the strings the probes report other than firewall rules (addresses, user
\* names, package names), in the order sorted() gives them
BaseOrder ==
    <<"0.0.0.0", "10.0.0.1", "10.0.0.2">>
    \o [i \in 1..(IpCap + 1) |-> IpName(i)]
    \o <<"alice", "bash", "bob", "curl", "git">>
    \o [i \in 1..(SudoCap + 1) |-> UserName(i)]
    \o <<"nano", "openssl">>

\* the firewall rules, which sort after all of BaseOrder
RuleOrder == [i \in 1..(RulesCap + RuleSlack) |-> RuleName(i)]

RuleNames == {RuleName(i) : i \in 1..(RulesCap + RuleSlack)}

\* sorted(S) for a set of strings
SortStr(S) ==
    SelectSeq(BaseOrder, LAMBDA x : x \in S)
    \o (IF \E x \in S : x \in RuleNames
        THEN SelectSeq(RuleOrder, LAMBDA x : x \in S) ELSE <<>>)

\* every (proto, ip, port) a host listens on, in the order sorted() gives them
PortOrder ==
    <<<<"tcp", "*", 0>>, <<"tcp", "0.0.0.0", 22>>, <<"tcp", "0.0.0.0", 80>>>>
    \o [i \in 1..(PortCap + 1) |-> <<"tcp", "0.0.0.0", 8000 + i>>]
    \o <<<<"udp", "127.0.0.1", 53>>>>

\* sorted(S) for a set of (proto, ip, port) tuples
SortPorts(S) == SelectSeq(PortOrder, LAMBDA x : x \in S)

JList(seq) == [k |-> "list", v |-> seq]
JInt(n) == [k |-> "int", v |-> n]
JStr(x) == [k |-> "str", v |-> x]
JBool(b) == [k |-> "bool", v |-> b]
JNull == [k |-> "null", v |-> FALSE]
AbsentList == [k |-> "absent", v |-> <<>>]
AbsentInt == [k |-> "absent", v |-> 0]
AbsentStr == [k |-> "absent", v |-> ""]
AbsentBool == [k |-> "absent", v |-> FALSE]

\* checks/logs.py check_logs: addresses of `last -i` without "0.0.0.0",
\* status from the counters of the auth log
ProbeLogs(h) ==
    [k |-> "dict",
     status |-> IF h.failed_root > 0 THEN "crit"
                ELSE IF h.failed_total > 0 \/ h.invalid_user > 0 THEN "warn"
                ELSE "ok",
     data |-> [k |-> "dict",
               ips |-> JList(SortStr(h.last_ips \ {"0.0.0.0"})),
               failed_total |-> JInt(h.failed_total),
               failed_root |-> JInt(h.failed_root),
               invalid_user |-> JInt(h.invalid_user)]]

\* checks/ports.py check_ports: one entry per line `ss -H -lntu` prints,
\* status from its return code
ProbePorts(h) ==
    [k |-> "dict",
     status |-> IF h.ss_rc = 0 THEN "ok" ELSE "warn",
     data |-> [k |-> "dict",
               entries |-> JList([i \in 1..Len(SortPorts(h.listen)) |->
                   [k |-> "dict",
                    proto |-> JStr(SortPorts(h.listen)[i][1]),
                    ip |-> JStr(SortPorts(h.listen)[i][2]),
                    port |-> JInt(SortPorts(h.listen)[i][3])]])]]

\* checks/users.py check_users: members of the sudo and wheel groups
ProbeUsers(h) ==
    [k |-> "dict",
     status |-> "ok",
     data |-> [k |-> "dict", sudo_users |-> JList(SortStr(h.sudo))]]

\* checks/updates.py check_updates: packages of `apt-get -s upgrade`;
\* without apt-get the data holds no count
ProbeUpdates(h) ==
    IF ~h.apt
    THEN [k |-> "dict", status |-> "warn",
          data |-> [k |-> "dict", count |-> AbsentInt, packages |-> AbsentList]]
    ELSE [k |-> "dict",
          status |-> IF Cardinality(h.pkgs) = 0 THEN "ok" ELSE "warn",
          data |-> [k |-> "dict",
                    count |-> JInt(Cardinality(h.pkgs)),
                    packages |-> JList(Take(SortStr(h.pkgs), 50))]]

\* checks/firewall.py check_firewall: backend, enabled (None when the status
\* line is neither active nor inactive) and the sorted rules, at most RulesCap
ProbeFirewall(h) ==
    IF h.fw_backend = "none"
    THEN [k |-> "dict", status |-> "warn",
          data |-> [k |-> "dict", backend |-> JStr("none"),
                    enabled |-> AbsentBool, rules |-> AbsentList]]
    ELSE [k |-> "dict",
          status |-> IF h.fw_enabled = "false" THEN "crit"
                     ELSE IF h.fw_enabled = "true" THEN "ok" ELSE "warn",
          data |-> [k |-> "dict",
                    backend |-> JStr(h.fw_backend),
                    enabled |-> IF h.fw_enabled = "true" THEN JBool(TRUE)
                                ELSE IF h.fw_enabled = "false" THEN JBool(FALSE)
                                ELSE JNull,
                    rules |-> JList(Take(SortStr({RuleName(i) : i \in h.fw_rules}),
                                         RulesCap))]]

\* a category that _collect_snapshot left out
AbsentCat == [k |-> "absent", status |-> "", data |-> [k |-> "absent"]]

\* agent._collect_snapshot, for the categories the engine reads: ports, users,
\* logs and updates are collected when their check or the notifications are
\* enabled, firewall only when its check is enabled
CollectSnapshot(cfg, h) ==
    [ports    |-> IF cfg.chk_ports \/ cfg.enabled THEN ProbePorts(h) ELSE AbsentCat,
     firewall |-> IF cfg.chk_firewall THEN ProbeFirewall(h) ELSE AbsentCat,
     users    |-> IF cfg.chk_users \/ cfg.enabled THEN ProbeUsers(h) ELSE AbsentCat,
     logs     |-> IF cfg.chk_logs \/ cfg.enabled THEN ProbeLogs(h) ELSE AbsentCat,
     updates  |-> IF cfg.chk_updates \/ cfg.enabled THEN ProbeUpdates(h) ELSE AbsentCat]

(***************************************************************************)
(* Extraction helpers shared by agent._notify and NotificationManager      *)
(* (the nested functions port_set, sudo_set, upd_count and the inline      *)
(* expressions for the login addresses)                                    *)
(***************************************************************************)
\* x.get("data") if isinstance(x.get("data"), dict) else {}
HasData(cat) == cat.k = "dict" /\ cat.data.k = "dict"

\* v if isinstance(v, list) else []
ListOr(j) == IF j.k = "list" THEN j.v ELSE <<>>

\* str(x or "") for a JSON string or a missing value
StrOr(j) == IF j.k = "str" THEN j.v ELSE ""

\* .strip().lower() on the protocol names `ss` prints
LowerStrip(x) ==
    CASE x = "TCP" -> "tcp"
      [] x = "UDP" -> "udp"
      [] x = " tcp" -> "tcp"
      [] OTHER -> x

\* cur_ips: set(cur_logs["data"].get("ips") or []) when it is a list
CurIps(cur) ==
    IF HasData(cur.logs) THEN SeqToSet(ListOr(cur.logs.data.ips)) ELSE {}

\* port_set(x): (proto, ip, port) of the entries with port > 0 and a protocol
PortSet(cat) ==
    LET entries == IF HasData(cat) THEN ListOr(cat.data.entries) ELSE <<>>
        ok(e) == /\ e.k = "dict"
                 /\ e.port.k = "int" /\ e.port.v > 0
                 /\ LowerStrip(StrOr(e.proto)) # ""
    IN  {<<LowerStrip(StrOr(e.proto)), StrOr(e.ip), e.port.v>> :
            e \in {x \in SeqToSet(entries) : ok(x)}}

\* sudo_set(x): the non-blank strings of data.sudo_users
SudoSet(cat) ==
    LET lst == IF HasData(cat) THEN ListOr(cat.data.sudo_users) ELSE <<>>
    IN  {u \in SeqToSet(lst) : u # ""}

\* upd_count(x): int(data.get("count") or 0)
UpdCount(cat) ==
    IF HasData(cat) /\ cat.data.count.k = "int" THEN cat.data.count.v ELSE 0

\* the persisted NotificationState as _read_state returns it; {} when the
\* file is missing or unreadable
EmptyState ==
    [ips |-> AbsentList, ports |-> AbsentList, sudo_users |-> AbsentList,
     updates_count |-> AbsentInt, logs_status |-> AbsentStr,
     firewall |-> [k |-> "absent", backend |-> "", enabled |-> AbsentBool,
                   rules |-> <<>>]]

\* a JSON list one of whose elements is itself a list or a dict; v holds its
\* string elements
JNested(seq) == [k |-> "nested", v |-> seq]

\* set(lst) raises TypeError (unhashable type) for such a list
Unhashable(j) == j.k = "nested"

\* the set(...) calls of the engine that are given a list as it was parsed:
\* the stored ips and sudo_users, and the ips of the snapshot (sudo_set and
\* port_set filter the elements first)
ExtractRaises(st, cur) ==
    \/ Unhashable(st.ips)
    \/ Unhashable(st.sudo_users)
    \/ HasData(cur.logs) /\ Unhashable(cur.logs.data.ips)

\* prev_ips
PrevIps(st) == SeqToSet(ListOr(st.ips))

\* prev_ps: the stored [proto, ip, port] lists, back as tuples
PrevPorts(st) == SeqToSet(ListOr(st.ports))

\* prev_sudo
PrevSudo(st) == SeqToSet(ListOr(st.sudo_users))

\* pc: the stored updates_count when it is an int, else 0
PrevUpdCount(st) == IF st.updates_count.k = "int" THEN st.updates_count.v ELSE 0

\* the lines "<code>ip:port | proto</code>" of the port alert
PortLine(t) == t[2] \o ":" \o NatStr(t[3]) \o " | " \o t[1]

Alert(level, title, lines) == [level |-> level, title |-> title, lines |-> lines]

(***************************************************************************)
(* agent._notify: the detectors in the order the function runs them        *)
(***************************************************************************)
\* agent.py 203-210
NotifyIps(cfg, st, cur) ==
    LET new_ips == SortStr({ip \in CurIps(cur) \ PrevIps(st) : ip # "" /\ ip # "0.0.0.0"})
    IN  IF new_ips # <<>> /\ cfg.send_warning
        THEN <<Alert("warn", "new_ip", Take(new_ips, IpCap))>>
        ELSE <<>>

\* agent.py 212-252
NotifyPorts(cfg, st, cur) ==
    LET cur_ps  == PortSet(cur.ports)
        added   == SortPorts(cur_ps \ PrevPorts(st))
        removed == SortPorts(PrevPorts(st) \ cur_ps)
        part(title, ts) ==
            IF ts = <<>> THEN <<>>
            ELSE <<"", title>> \o [i \in 1..Len(Take(ts, PortCap)) |-> PortLine(ts[i])]
    IN  IF (added # <<>> \/ removed # <<>>) /\ cfg.send_warning
        THEN <<Alert("warn", "ports_changed",
                     part("opened", added) \o part("closed", removed))>>
        ELSE <<>>

\* Mutant of NotifySudo: a new sudo user is a warning
NotifySudoAsWarning(cfg, st, cur) ==
    LET new_sudo == SortStr(SudoSet(cur.users) \ PrevSudo(st))
    IN  IF new_sudo # <<>> /\ cfg.send_warning
        THEN <<Alert("warn", "new_sudo_user", Take(new_sudo, SudoCap))>>
        ELSE <<>>

\* agent.py 254-263
NotifySudo(cfg, st, cur) ==
    LET new_sudo == SortStr(SudoSet(cur.users) \ PrevSudo(st))
    IN  IF new_sudo # <<>> /\ cfg.send_critical
        THEN <<Alert("crit", "new_sudo_user", Take(new_sudo, SudoCap))>>
        ELSE <<>>

\* Mutant of NotifyUpdates: alerts whenever the count changed
NotifyUpdatesOnChange(cfg, st, cur) ==
    LET pc == PrevUpdCount(st)
        cc == UpdCount(cur.updates)
    IN  IF cc > 0 /\ cc # pc /\ cfg.send_warning
        THEN <<Alert("warn", "updates_available", <<NatStr(cc)>>)>>
        ELSE <<>>

\* agent.py 265-282
NotifyUpdates(cfg, st, cur) ==
    LET pc == PrevUpdCount(st)
        cc == UpdCount(cur.updates)
        pkgs == IF HasData(cur.updates)
                THEN Take(ListOr(cur.updates.data.packages), 10) ELSE <<>>
    IN  IF cc > 0 /\ pc = 0 /\ cfg.send_warning
        THEN <<Alert("warn", "updates_available", <<NatStr(cc)>> \o pkgs)>>
        ELSE <<>>

\* the counters failed_total / failed_root / invalid_user, 0 unless an int
Counter(j) == IF j.k = "int" THEN j.v ELSE 0

\* Mutant of NotifyLogs: alerts at every cycle the status is elevated
NotifyLogsEveryCycle(cfg, st, cur) ==
    LET cur_log_status  == IF cur.logs.k = "dict" THEN cur.logs.status ELSE ""
        prev_log_status == StrOr(st.logs_status)
        d  == cur.logs.data
        ft == IF HasData(cur.logs) THEN Counter(d.failed_total) ELSE 0
        fr == IF HasData(cur.logs) THEN Counter(d.failed_root) ELSE 0
        iu == IF HasData(cur.logs) THEN Counter(d.invalid_user) ELSE 0
    IN  IF cur_log_status \in {"warn", "crit"}
        THEN (IF cur_log_status = "crit" /\ cfg.send_critical
              THEN <<Alert("crit", "logs_crit", <<NatStr(ft), NatStr(fr), NatStr(iu)>>)>>
              ELSE <<>>)
             \o
             (IF cur_log_status = "warn" /\ cfg.send_warning
              THEN <<Alert("warn", "logs_warn", <<NatStr(ft), NatStr(iu)>>)>>
              ELSE <<>>)
        ELSE <<>>

\* agent.py 284-295
NotifyLogs(cfg, st, cur) ==
    LET cur_log_status  == IF cur.logs.k = "dict" THEN cur.logs.status ELSE ""
        prev_log_status == StrOr(st.logs_status)
        d  == cur.logs.data
        ft == IF HasData(cur.logs) THEN Counter(d.failed_total) ELSE 0
        fr == IF HasData(cur.logs) THEN Counter(d.failed_root) ELSE 0
        iu == IF HasData(cur.logs) THEN Counter(d.invalid_user) ELSE 0
    IN  IF cur_log_status \in {"warn", "crit"} /\ cur_log_status # prev_log_status
        THEN (IF cur_log_status = "crit" /\ cfg.send_critical
              THEN <<Alert("crit", "logs_crit", <<NatStr(ft), NatStr(fr), NatStr(iu)>>)>>
              ELSE <<>>)
             \o
             (IF cur_log_status = "warn" /\ cfg.send_warning
              THEN <<Alert("warn", "logs_warn", <<NatStr(ft), NatStr(iu)>>)>>
              ELSE <<>>)
        ELSE <<>>

\* msgs, as agent._notify has built it before the dispatch loop
NotifyMsgs(cfg, st, cur) ==
    NotifyIps(cfg, st, cur) \o NotifyPorts(cfg, st, cur) \o NotifySudo(cfg, st, cur)
    \o NotifyUpdates(cfg, st, cur) \o NotifyLogs(cfg, st, cur)

\* next_state (agent.py 308-314) after json.dump and json.load: five keys,
\* no "firewall"
NotifyNextState(cur) ==
    [ips |-> JList(SortStr(CurIps(cur))),
     ports |-> JList(SortPorts(PortSet(cur.ports))),
     sudo_users |-> JList(SortStr(SudoSet(cur.users))),
     updates_count |-> JInt(UpdCount(cur.updates)),
     logs_status |-> JStr(IF cur.logs.k = "dict" THEN cur.logs.status ELSE ""),
     firewall |-> EmptyState.firewall]

(***************************************************************************)
(* notifications.NotificationManager                                       *)
(***************************************************************************)
\* check_new_ips
CheckNewIps(cfg, st, cur) ==
    LET new_ips == SortStr({ip \in CurIps(cur) \ PrevIps(st) : ip # "" /\ ip # "0.0.0.0"})
    IN  IF new_ips # <<>> /\ cfg.send_warning
        THEN <<Alert("warn", "new_ip", Take(new_ips, IpCap))>>
        ELSE <<>>

\* check_ports
CheckPorts(cfg, st, cur) ==
    LET cur_ps  == PortSet(cur.ports)
        added   == SortPorts(cur_ps \ PrevPorts(st))
        removed == SortPorts(PrevPorts(st) \ cur_ps)
        part(title, ts) ==
            IF ts = <<>> THEN <<>>
            ELSE <<"", title>> \o [i \in 1..Len(Take(ts, PortCap)) |-> PortLine(ts[i])]
    IN  IF (added # <<>> \/ removed # <<>>) /\ cfg.send_warning
        THEN <<Alert("warn", "ports_changed",
                     part("opened", added) \o part("closed", removed))>>
        ELSE <<>>

\* check_sudo_users
CheckSudoUsers(cfg, st, cur) ==
    LET new_sudo == SortStr(SudoSet(cur.users) \ PrevSudo(st))
    IN  IF new_sudo # <<>> /\ cfg.send_critical
        THEN <<Alert("crit", "new_sudo_user", Take(new_sudo, SudoCap))>>
        ELSE <<>>

\* check_updates
CheckUpdates(cfg, st, cur) ==
    LET pc == PrevUpdCount(st)
        cc == UpdCount(cur.updates)
        pkgs == IF HasData(cur.updates)
                THEN Take(ListOr(cur.updates.data.packages), 10) ELSE <<>>
    IN  IF cc > 0 /\ pc = 0 /\ cfg.send_warning
        THEN <<Alert("warn", "updates_available", <<NatStr(cc)>> \o pkgs)>>
        ELSE <<>>

\* check_logs
CheckLogs(cfg, st, cur) ==
    LET cur_log_status  == IF cur.logs.k = "dict" THEN cur.logs.status ELSE ""
        prev_log_status == StrOr(st.logs_status)
        d  == cur.logs.data
        ft == IF HasData(cur.logs) THEN Counter(d.failed_total) ELSE 0
        fr == IF HasData(cur.logs) THEN Counter(d.failed_root) ELSE 0
        iu == IF HasData(cur.logs) THEN Counter(d.invalid_user) ELSE 0
    IN  IF cur_log_status \in {"warn", "crit"} /\ cur_log_status # prev_log_status
        THEN (IF cur_log_status = "crit" /\ cfg.send_critical
              THEN <<Alert("crit", "logs_crit", <<NatStr(ft), NatStr(fr), NatStr(iu)>>)>>
              ELSE <<>>)
             \o
             (IF cur_log_status = "warn" /\ cfg.send_warning
              THEN <<Alert("warn", "logs_warn", <<NatStr(ft), NatStr(iu)>>)>>
              ELSE <<>>)
        ELSE <<>>

\* cur_fw_enabled: data.get("enabled"), None for a missing key or null
CurFwEnabled(cur) ==
    IF HasData(cur.firewall) /\ cur.firewall.data.enabled.k = "bool"
    THEN cur.firewall.data.enabled ELSE JNull

\* cur_fw_backend
CurFwBackend(cur) ==
    IF HasData(cur.firewall) THEN StrOr(cur.firewall.data.backend) ELSE ""

\* cur_fw_rules_s: the sorted strings of data.rules
CurFwRules(cur) ==
    IF HasData(cur.firewall)
    THEN SortStr(SeqToSet(ListOr(cur.firewall.data.rules))) ELSE <<>>

\* Mutant of CheckFirewall: an emptied ruleset is reported as well
CheckFirewallEmptied(cfg, st, cur) ==
    LET cur_en     == CurFwEnabled(cur)
        cur_rules  == CurFwRules(cur)
        prev_en    == IF st.firewall.k = "dict" /\ st.firewall.enabled.k = "bool"
                      THEN st.firewall.enabled ELSE JNull
        prev_back  == IF st.firewall.k = "dict" THEN st.firewall.backend ELSE ""
        prev_rules == IF st.firewall.k = "dict"
                      THEN SortStr(SeqToSet(st.firewall.rules)) ELSE <<>>
        backend    == IF CurFwBackend(cur) # "" THEN CurFwBackend(cur) ELSE prev_back
        a          == SeqToSet(cur_rules) \ SeqToSet(prev_rules)
        r          == SeqToSet(prev_rules) \ SeqToSet(cur_rules)
        part(title, S) ==
            IF S = {} THEN <<>> ELSE <<"", title>> \o Take(SortStr(S), 20)
    IN  (IF prev_en.k = "bool" /\ cur_en.k = "bool" /\ prev_en.v /\ ~cur_en.v
            /\ cfg.send_critical
         THEN <<Alert("crit", "firewall_disabled", <<backend>>)>> ELSE <<>>)
        \o
        (IF prev_en.k = "bool" /\ cur_en.k = "bool" /\ ~prev_en.v /\ cur_en.v
            /\ cfg.send_warning
         THEN <<Alert("warn", "firewall_enabled", <<backend>>)>> ELSE <<>>)
        \o
        (IF prev_rules # cur_rules /\ cfg.send_warning
            /\ (a # {} \/ r # {})
         THEN <<Alert("warn", "firewall_rules", part("added", a) \o part("removed", r))>>
         ELSE <<>>)

\* check_firewall
CheckFirewall(cfg, st, cur) ==
    LET cur_en     == CurFwEnabled(cur)
        cur_rules  == CurFwRules(cur)
        prev_en    == IF st.firewall.k = "dict" /\ st.firewall.enabled.k = "bool"
                      THEN st.firewall.enabled ELSE JNull
        prev_back  == IF st.firewall.k = "dict" THEN st.firewall.backend ELSE ""
        prev_rules == IF st.firewall.k = "dict"
                      THEN SortStr(SeqToSet(st.firewall.rules)) ELSE <<>>
        backend    == IF CurFwBackend(cur) # "" THEN CurFwBackend(cur) ELSE prev_back
        a          == SeqToSet(cur_rules) \ SeqToSet(prev_rules)
        r          == SeqToSet(prev_rules) \ SeqToSet(cur_rules)
        part(title, S) ==
            IF S = {} THEN <<>> ELSE <<"", title>> \o Take(SortStr(S), 20)
    IN  (IF prev_en.k = "bool" /\ cur_en.k = "bool" /\ prev_en.v /\ ~cur_en.v
            /\ cfg.send_critical
         THEN <<Alert("crit", "firewall_disabled", <<backend>>)>> ELSE <<>>)
        \o
        (IF prev_en.k = "bool" /\ cur_en.k = "bool" /\ ~prev_en.v /\ cur_en.v
            /\ cfg.send_warning
         THEN <<Alert("warn", "firewall_enabled", <<backend>>)>> ELSE <<>>)
        \o
        (IF cur_rules # <<>> /\ prev_rules # cur_rules /\ cfg.send_warning
            /\ (a # {} \/ r # {})
         THEN <<Alert("warn", "firewall_rules", part("added", a) \o part("removed", r))>>
         ELSE <<>>)

\* Mutant of BuildNextState: a shorter slice of the rules is stored
BuildNextStateShortRules(cur) ==
    [ips |-> JList(SortStr(CurIps(cur))),
     ports |-> JList(SortPorts(PortSet(cur.ports))),
     sudo_users |-> JList(SortStr(SudoSet(cur.users))),
     updates_count |-> JInt(UpdCount(cur.updates)),
     logs_status |-> JStr(IF cur.logs.k = "dict" THEN cur.logs.status ELSE ""),
     firewall |-> [k |-> "dict", backend |-> CurFwBackend(cur),
                   enabled |-> CurFwEnabled(cur),
                   rules |-> Take(CurFwRules(cur), RulesCap - 1)]]

\* build_next_state, after json.dump and json.load
BuildNextState(cur) ==
    [ips |-> JList(SortStr(CurIps(cur))),
     ports |-> JList(SortPorts(PortSet(cur.ports))),
     sudo_users |-> JList(SortStr(SudoSet(cur.users))),
     updates_count |-> JInt(UpdCount(cur.updates)),
     logs_status |-> JStr(IF cur.logs.k = "dict" THEN cur.logs.status ELSE ""),
     firewall |-> [k |-> "dict", backend |-> CurFwBackend(cur),
                   enabled |-> CurFwEnabled(cur),
                   rules |-> Take(CurFwRules(cur), RulesCap)]]

\* self.messages after the six check_* methods, called in the order the
\* class defines them
ManagerMsgs(cfg, st, cur) ==
    CheckNewIps(cfg, st, cur) \o CheckPorts(cfg, st, cur) \o CheckSudoUsers(cfg, st, cur)
    \o CheckUpdates(cfg, st, cur) \o CheckLogs(cfg, st, cur) \o CheckFirewall(cfg, st, cur)

(***************************************************************************)
(* Dispatch: the loop at agent.py 297-306, the same as send_all            *)
(***************************************************************************)
\* level gating of one message
Gated(cfg, msg) ==
    \/ msg.level = "crit" /\ ~cfg.send_critical
    \/ msg.level = "warn" /\ ~cfg.send_warning

\* every (message, recipient) pair in loop order, with the outcome of its send
SendPairs(msgs, cfg, fails) ==
    LET m == Len(cfg.recipients)
        all == [j \in 1..(Len(msgs) * m) |->
                   [msg |-> ((j - 1) \div m) + 1,
                    uid |-> cfg.recipients[((j - 1) % m) + 1],
                    ok  |-> <<((j - 1) \div m) + 1, cfg.recipients[((j - 1) % m) + 1]>>
                                \notin fails]]
    IN  SelectSeq(all, LAMBDA a : ~Gated(cfg, msgs[a.msg]))

\* Mutant of SendAll: no try/except around the send
SendAllNoCatch(msgs, cfg, fails) ==
    LET pairs == SendPairs(msgs, cfg, fails)
        bad == {j \in DOMAIN pairs : ~pairs[j].ok}
        first == IF bad = {} THEN Len(pairs)
                 ELSE CHOOSE j \in bad : \A i \in bad : j <= i
    IN  [attempts |-> SubSeq(pairs, 1, first), raised |-> bad # {}]

\* try: _tg_send(token, uid, text) / except Exception: continue
SendAll(msgs, cfg, fails) ==
    [attempts |-> SendPairs(msgs, cfg, fails), raised |-> FALSE]

(***************************************************************************)
(* Sampling cycles of the notification engine                              *)
(***************************************************************************)
MaxCycles == 2      \* sampling cycles in one behaviour

Tcp22 == <<"tcp", "0.0.0.0", 22>>
Tcp80 == <<"tcp", "0.0.0.0", 80>>
Udp53 == <<"udp", "127.0.0.1", 53>>
TcpAny == <<"tcp", "*", 0>>

\* a quiet host
Host0 ==
    [last_ips |-> {"0.0.0.0"}, failed_total |-> 0, failed_root |-> 0, invalid_user |-> 0,
     listen |-> {Tcp22}, ss_rc |-> 0, sudo |-> {"alice"}, apt |-> TRUE, pkgs |-> {},
     fw_backend |-> "ufw", fw_enabled |-> "true", fw_rules |-> {1, 2}]

\* the host states the probes sample
Hosts ==
    { Host0,
      [Host0 EXCEPT !.pkgs = {"curl", "nano", "openssl"}],
      [Host0 EXCEPT !.last_ips = {"0.0.0.0", "10.0.0.1"}, !.invalid_user = 1,
                    !.listen = {Tcp22, Tcp80, TcpAny}, !.sudo = {"alice", "bob"},
                    !.pkgs = {"curl", "nano", "openssl"}, !.fw_rules = {1, 2, 3}],
      [Host0 EXCEPT !.last_ips = {"10.0.0.1", "10.0.0.2"}, !.failed_total = 3,
                    !.failed_root = 2, !.listen = {Udp53}, !.sudo = {},
                    !.pkgs = {"bash", "curl", "git", "nano", "openssl"},
                    !.fw_enabled = "false", !.fw_rules = {}],
      [Host0 EXCEPT !.apt = FALSE, !.fw_backend = "none"],
      [Host0 EXCEPT !.fw_enabled = "unknown", !.fw_rules = 1..RulesCap],
      [Host0 EXCEPT !.failed_root = 1, !.fw_rules = 2..(RulesCap + RuleSlack)],
      \* `ss` fails (no netlink access) and prints nothing
      [Host0 EXCEPT !.listen = {}, !.ss_rc = 1],
      \* a busy host: many login addresses, listeners and sudo members at once
      [Host0 EXCEPT !.last_ips = {IpName(i) : i \in 1..(IpCap + 1)},
                    !.listen = {<<"tcp", "0.0.0.0", 8000 + i>> : i \in 1..(PortCap + 1)},
                    !.sudo = {UserName(i) : i \in 1..(SudoCap + 1)}] }

\* the notifications section, the checks section and the environment
Config0 ==
    [enabled |-> TRUE, token |-> TRUE, recipients |-> <<1, 2>>,
     send_warning |-> TRUE, send_critical |-> TRUE,
     chk_ports |-> TRUE, chk_firewall |-> TRUE, chk_users |-> FALSE,
     chk_logs |-> FALSE, chk_updates |-> FALSE]

ConfigNoFw == [Config0 EXCEPT !.chk_firewall = FALSE]
ConfigNoWarn == [Config0 EXCEPT !.send_warning = FALSE]
ConfigNoCrit == [Config0 EXCEPT !.send_critical = FALSE, !.recipients = <<2>>]
ConfigQuiet == [Config0 EXCEPT !.send_warning = FALSE, !.send_critical = FALSE]

\* what one cycle meets besides the host: its configuration, the sends that
\* raise (message index, recipient), and whether writing the state file raises
CycleInputs ==
    { [cfg |-> Config0, fails |-> {}, wfail |-> FALSE],
      [cfg |-> Config0, fails |-> {<<1, 1>>}, wfail |-> FALSE],
      [cfg |-> Config0, fails |-> {<<1, 2>>, <<2, 1>>}, wfail |-> FALSE],
      [cfg |-> Config0, fails |-> {<<1, 1>>, <<1, 2>>}, wfail |-> TRUE],
      [cfg |-> ConfigNoFw, fails |-> {}, wfail |-> FALSE],
      [cfg |-> ConfigNoWarn, fails |-> {}, wfail |-> FALSE],
      [cfg |-> ConfigNoCrit, fails |-> {<<1, 2>>}, wfail |-> FALSE],
      [cfg |-> ConfigQuiet, fails |-> {}, wfail |-> FALSE],
      [cfg |-> [Config0 EXCEPT !.enabled = FALSE], fails |-> {}, wfail |-> FALSE],
      [cfg |-> [Config0 EXCEPT !.token = FALSE], fails |-> {}, wfail |-> FALSE],
      [cfg |-> [Config0 EXCEPT !.recipients = <<>>], fails |-> {}, wfail |-> FALSE] }

Configs == {i.cfg : i \in CycleInputs}

\* the snapshot of every host state under every configuration
SnapshotOf == [cfg \in Configs, h \in Hosts |-> CollectSnapshot(cfg, h)]

NoConfig == [Config0 EXCEPT !.enabled = FALSE, !.recipients = <<>>]

\* notify_state.json as the first cycle finds it: missing, or a JSON object
\* some other writer left there
StoredStates ==
    { EmptyState,
      [EmptyState EXCEPT !.ips = JNested(<<"10.0.0.1">>)],
      [EmptyState EXCEPT !.ips = JList(<<"10.0.0.1">>),
                         !.sudo_users = JNested(<<"alice">>)] }

NotifyVarsInit ==
    /\ engine \in {"agent", "manager"}
    /\ nst \in StoredStates
    /\ nstPrev = EmptyState
    /\ ncur = CollectSnapshot(NoConfig, Host0)
    /\ ncfg = NoConfig
    /\ nmsgs = <<>> /\ natt = <<>>
    /\ nran = FALSE /\ nwrote = FALSE /\ nwfail = FALSE /\ nraised = FALSE
    /\ nsame = FALSE /\ nprevWrote = FALSE
    /\ ncycles = 0

NotifyIdle ==
    /\ engine = "agent"
    /\ nst = EmptyState
    /\ nstPrev = EmptyState
    /\ ncur = CollectSnapshot(NoConfig, Host0)
    /\ ncfg = NoConfig
    /\ nmsgs = <<>> /\ natt = <<>>
    /\ nran = FALSE /\ nwrote = FALSE /\ nwfail = FALSE /\ nraised = FALSE
    /\ nsame = FALSE /\ nprevWrote = FALSE
    /\ ncycles = 0

\* the early returns of _notify: notifications disabled, no token, no recipients
EarlyReturn(cfg) == ~cfg.enabled \/ ~cfg.token \/ cfg.recipients = <<>>

\* Mutant of CycleEffect: the state is rebuilt only when a severity flag is on
CycleEffectFlagged(cfg, cur, fails, wfail, msgs, next) ==
    LET sent == SendAll(msgs, cfg, fails)
        wrote == /\ ~EarlyReturn(cfg) /\ ~sent.raised /\ ~wfail
                 /\ (cfg.send_warning \/ cfg.send_critical)
    IN  /\ ncur' = cur
        /\ ncfg' = cfg
        /\ nstPrev' = nst
        /\ nran' = ~EarlyReturn(cfg)
        /\ nmsgs' = IF EarlyReturn(cfg) THEN <<>> ELSE msgs
        /\ natt' = IF EarlyReturn(cfg) THEN <<>> ELSE sent.attempts
        /\ nwrote' = wrote
        /\ nwfail' = (~EarlyReturn(cfg) /\ ~sent.raised /\ wfail)
        /\ nraised' = FALSE
        /\ nst' = IF wrote THEN next ELSE nst
        /\ nsame' = (ncycles > 0 /\ cur = ncur)
        /\ nprevWrote' = nwrote
        /\ ncycles' = ncycles + 1
        /\ UNCHANGED engine

\* one cycle's effect on the engine's variables: msgs is what the detectors
\* built, next the rebuilt state, wfail whether writing the state file raises
CycleEffect(cfg, cur, fails, wfail, msgs, next) ==
    LET sent == SendAll(msgs, cfg, fails)
        wrote == ~EarlyReturn(cfg) /\ ~sent.raised /\ ~wfail
    IN  /\ ncur' = cur
        /\ ncfg' = cfg
        /\ nstPrev' = nst
        /\ nran' = ~EarlyReturn(cfg)
        /\ nmsgs' = IF EarlyReturn(cfg) THEN <<>> ELSE msgs
        /\ natt' = IF EarlyReturn(cfg) THEN <<>> ELSE sent.attempts
        /\ nwrote' = wrote
        /\ nwfail' = (~EarlyReturn(cfg) /\ ~sent.raised /\ wfail)
        /\ nraised' = FALSE
        /\ nst' = IF wrote THEN next ELSE nst
        /\ nsame' = (ncycles > 0 /\ cur = ncur)
        /\ nprevWrote' = nwrote
        /\ ncycles' = ncycles + 1
        /\ UNCHANGED engine

\* a cycle that an exception of an extractor ends: nothing is sent and
\* notify_state.json is not written
CycleRaised(cfg, cur) ==
    /\ ncur' = cur
    /\ ncfg' = cfg
    /\ nstPrev' = nst
    /\ nran' = FALSE
    /\ nmsgs' = <<>>
    /\ natt' = <<>>
    /\ nwrote' = FALSE
    /\ nwfail' = FALSE
    /\ nraised' = TRUE
    /\ nsame' = (ncycles > 0 /\ cur = ncur)
    /\ nprevWrote' = nwrote
    /\ ncycles' = ncycles + 1
    /\ UNCHANGED <<engine, nst>>

\* agent.run: cur = _collect_snapshot(config); _notify(config, state_dir, cur)
AgentCycle ==
    /\ engine = "agent"
    /\ ncycles < MaxCycles
    /\ \E h \in Hosts, i \in CycleInputs :
          LET cur == SnapshotOf[i.cfg, h]
          IN  IF ~EarlyReturn(i.cfg) /\ ExtractRaises(nst, cur)
              THEN CycleRaised(i.cfg, cur)
              ELSE CycleEffect(i.cfg, cur, i.fails, i.wfail,
                               NotifyMsgs(i.cfg, nst, cur), NotifyNextState(cur))

\* a cycle driven through NotificationManager: the check_* methods, send_all,
\* then build_next_state written to notify_state.json
ManagerCycle ==
    /\ engine = "manager"
    /\ ncycles < MaxCycles
    /\ \E h \in Hosts, i \in CycleInputs :
          LET cur == SnapshotOf[i.cfg, h]
          IN  IF ~EarlyReturn(i.cfg) /\ ExtractRaises(nst, cur)
              THEN CycleRaised(i.cfg, cur)
              ELSE CycleEffect(i.cfg, cur, i.fails, i.wfail,
                               ManagerMsgs(i.cfg, nst, cur), BuildNextState(cur))

(***************************************************************************)
(* Specifications                                                          *)
(***************************************************************************)
(***************************************************************************)
(* Supervisor: src/run.py                                                  *)
(***************************************************************************)
MaxTouch == 1       \* writes of the restart marker in one behaviour
MaxSignals == 1     \* signals delivered in one behaviour

\* paths are sequences of components; "/" is the root, "~" the home prefix
Home == <<"/", "home", "u">>
ProjectDir == <<"/", "opt", "sb">>
ProjectConfig == <<"/", "opt", "sb", "config", "config.yml">>
LinkedConfig == <<"/", "etc", "sb.yml">>     \* a symlink to ProjectConfig

\* Path.expanduser()
ExpandUser(p) == IF p # <<>> /\ p[1] = "~" THEN Home \o Tail(p) ELSE p

\* Path.resolve(): absolute against the working directory, symlinks followed
ResolvePath(p, wd) ==
    LET abs == IF p # <<>> /\ p[1] = "/" THEN p ELSE wd \o p
    IN  IF abs = LinkedConfig THEN ProjectConfig ELSE abs

\* cfg_path = Path(args.config).expanduser().resolve()
CfgPathOf(token, wd) == ResolvePath(ExpandUser(token), wd)

Prefixes(p) == {SubSeq(p, 1, n) : n \in 1..Len(p)}

\* find_root: SECOPS_BUDDY_ROOT if set, else the project directory above the
\* working directory or above the configuration path, else the working directory
FindRoot(rootEnv, cfg, wd) ==
    IF rootEnv # <<>> THEN rootEnv
    ELSE IF ProjectDir \in Prefixes(wd) \/ ProjectDir \in Prefixes(cfg)
         THEN ProjectDir
         ELSE wd

\* can_daemon (os.name is "posix")
CanDaemon(a, isChild) == ~a.foreground /\ ~isChild /\ ~a.once

\* the command line the daemonizing parent gives its child
ChildArgs(a, cfg) ==
    [config |-> cfg, once |-> FALSE, no_agent |-> a.no_agent, foreground |-> TRUE]

\* the relaunch command line without --foreground
RelaunchArgsBare(cfg, noAgent) ==
    [config |-> cfg, once |-> FALSE, no_agent |-> noAgent, foreground |-> FALSE]

\* the command line os.execv is given on restart
RelaunchArgs(cfg, noAgent) ==
    [config |-> cfg, once |-> FALSE, no_agent |-> noAgent, foreground |-> TRUE]

ConfigTokens == {<<"config.yml">>, <<"~", "config.yml">>, ProjectConfig, LinkedConfig}
WorkDirs == {<<"/", "opt", "sb", "config">>, Home}

NoLaunch == [kind |-> "user", cfg |-> <<>>, no_agent |-> FALSE, pid |-> 0, live |-> {},
             mtime |-> 0]

SupInit ==
    /\ argv \in [config : ConfigTokens, once : BOOLEAN, no_agent : BOOLEAN,
                 foreground : BOOLEAN]
    /\ cwd \in WorkDirs
    /\ envDaemon \in BOOLEAN
    /\ envRoot = <<>>
    /\ pid = 1 /\ parent = 0 /\ livePids = {1}
    /\ spc = "main"
    /\ cfgPath = <<>>
    /\ stop = FALSE /\ restart = FALSE
    /\ agentT = "none" /\ botT = "none" /\ watchT = "none"
    /\ worker = "idle"
    /\ flagMtime \in {0, 1} /\ watchLast = 0
    /\ sigs = 0
    /\ launch = NoLaunch
    /\ forks = {}
    /\ polls = 0
    /\ stopBy = "none"
    /\ pyUnified \in BOOLEAN
    /\ cfgOk \in BOOLEAN
    /\ lastCycle = "none"
    /\ inflight = 0
    /\ exitCode = -1
    /\ parentCode = -1

SupIdle ==
    /\ argv = [config |-> ProjectConfig, once |-> TRUE, no_agent |-> TRUE,
               foreground |-> TRUE]
    /\ cwd = Home
    /\ envDaemon = FALSE
    /\ envRoot = <<>>
    /\ pid = 1 /\ parent = 0 /\ livePids = {}
    /\ spc = "terminated"
    /\ cfgPath = <<>>
    /\ stop = FALSE /\ restart = FALSE
    /\ agentT = "none" /\ botT = "none" /\ watchT = "none"
    /\ worker = "idle"
    /\ flagMtime = 0 /\ watchLast = 0
    /\ sigs = 0
    /\ launch = NoLaunch
    /\ forks = {}
    /\ polls = 0
    /\ stopBy = "none"
    /\ pyUnified = TRUE
    /\ cfgOk = TRUE
    /\ lastCycle = "none"
    /\ inflight = 0
    /\ exitCode = 0
    /\ parentCode = -1

procVars == <<argv, cwd, envDaemon, envRoot, pid, parent, livePids, cfgPath,
              launch, forks>>
taskVars == <<agentT, botT, watchT, worker>>
eventVars == <<stop, restart>>

\* module level, can_daemon: Popen the child with cwd=root and
\* SECOPS_BUDDY_DAEMON=1; from here on the service process is the child
MainDaemonize ==
    /\ spc = "main"
    /\ CanDaemon(argv, envDaemon)
    /\ LET cfg == CfgPathOf(argv.config, cwd)
           root == FindRoot(envRoot, cfg, cwd)
           child == pid + 1
       IN  /\ argv' = ChildArgs(argv, cfg)
           /\ cwd' = root
           /\ envRoot' = root
           /\ envDaemon' = TRUE
           /\ parent' = pid
           /\ pid' = child
           /\ livePids' = livePids \cup {child}
           /\ launch' = [kind |-> "daemon", cfg |-> cfg, no_agent |-> argv.no_agent,
                         pid |-> pid, live |-> livePids]
           /\ forks' = forks \cup {launch.kind}
    /\ cfgPath' = <<>>
    /\ UNCHANGED <<spc, eventVars, taskVars, flagMtime, watchLast, sigs, polls,
                   stopBy, pyUnified, cfgOk, lastCycle, inflight, exitCode,
                   parentCode>>

\* the daemonizing parent writes the pid file, prints and raises SystemExit(0)
ParentExit ==
    /\ parent # 0
    /\ livePids' = livePids \ {parent}
    /\ parent' = 0
    /\ parentCode' = 0
    /\ UNCHANGED <<argv, cwd, envDaemon, envRoot, pid, cfgPath, launch, forks,
                   spc, eventVars, taskVars, flagMtime, watchLast, sigs,
                   polls, stopBy, pyUnified, cfgOk, lastCycle, inflight,
                   exitCode>>

\* module level, not can_daemon: asyncio.run(_run(str(cfg_path), ...))
MainForeground ==
    /\ spc = "main"
    /\ ~CanDaemon(argv, envDaemon)
    /\ cfgPath' = CfgPathOf(argv.config, cwd)
    /\ spc' = "first"
    /\ UNCHANGED <<argv, cwd, envDaemon, envRoot, pid, parent, livePids, launch,
                   forks, eventVars, taskVars, flagMtime, watchLast, sigs,
                   polls, stopBy, pyUnified, cfgOk, lastCycle, inflight,
                   exitCode, parentCode>>

\* _run: the first cycle unless --no-agent: await asyncio.to_thread(run_agent)
FirstCycle ==
    /\ spc = "first"
    /\ IF argv.no_agent
       THEN spc' = "afterfirst" /\ UNCHANGED <<worker, inflight>>
       ELSE spc' = "firstwait" /\ worker' = "early" /\ inflight' = inflight + 1
    /\ UNCHANGED <<procVars, eventVars, agentT, botT, watchT, flagMtime, watchLast,
                   sigs, polls, stopBy, pyUnified, cfgOk, lastCycle, exitCode,
                   parentCode>>

\* _run: if once: return, and asyncio.run hands None to SystemExit
FirstReturn ==
    /\ spc = "afterfirst"
    /\ IF argv.once
       THEN spc' = "terminated" /\ livePids' = livePids \ {pid} /\ exitCode' = 0
       ELSE spc' = "setup" /\ UNCHANGED <<livePids, exitCode>>
    /\ lastCycle' = IF argv.once THEN "none" ELSE lastCycle
    /\ UNCHANGED <<argv, cwd, envDaemon, envRoot, pid, parent, cfgPath, launch,
                   forks, eventVars, taskVars, flagMtime, watchLast, sigs,
                   polls, stopBy, pyUnified, cfgOk, inflight, parentCode>>

\* _run: load_config, which raises out of _run and asyncio.run when the
\* document is missing or not a mapping; else events, signal handlers and the
\* three tasks
Setup ==
    /\ spc = "setup"
    /\ IF cfgOk
       THEN /\ stop' = FALSE /\ restart' = FALSE
            /\ agentT' = IF argv.no_agent THEN "none" ELSE "check"
            /\ botT' = "start"
            /\ watchT' = "init"
            /\ spc' = "wait"
            /\ polls' = 0
            /\ stopBy' = "none"
            /\ UNCHANGED <<livePids, exitCode>>
       ELSE /\ spc' = "terminated"
            /\ livePids' = livePids \ {pid}
            /\ exitCode' = 1
            /\ UNCHANGED <<eventVars, agentT, botT, watchT, polls, stopBy>>
    /\ UNCHANGED <<argv, cwd, envDaemon, envRoot, pid, parent, cfgPath, launch,
                   forks, worker, flagMtime, watchLast, sigs, pyUnified, cfgOk,
                   lastCycle, inflight, parentCode>>

\* Mutant of AgentCheck: the loop does not test stop
AgentCheckBlind ==
    /\ agentT = "check"
    /\ agentT' = "thread" /\ worker' = "early" /\ inflight' = inflight + 1
    /\ lastCycle' = "none"
    /\ UNCHANGED <<procVars, spc, eventVars, botT, watchT, flagMtime, watchLast, sigs,
                   polls, stopBy, pyUnified, cfgOk, exitCode, parentCode>>

\* _agent_loop_with_stop: while not stop.is_set(): to_thread(run_agent)
AgentCheck ==
    /\ agentT = "check"
    /\ IF stop
       THEN agentT' = "done" /\ UNCHANGED <<worker, inflight>>
       ELSE agentT' = "thread" /\ worker' = "early" /\ inflight' = inflight + 1
    /\ lastCycle' = "none"
    /\ UNCHANGED <<procVars, spc, eventVars, botT, watchT, flagMtime, watchLast, sigs,
                   polls, stopBy, pyUnified, cfgOk, exitCode, parentCode>>

\* the coroutine awaiting the thread resumes: the loop goes on to its wait
\* whether run_agent returned or raised (except Exception: log.error), _run
\* goes on after its first cycle; a cancelled loop is not resumed
Resumed(task) == IF task = "thread" THEN "sleep" ELSE task

ResumedRun(pc) == IF pc = "firstwait" THEN "afterfirst" ELSE pc

\* agent.run: _notify returned, the snapshot and the diff are being written
WorkerNotified ==
    /\ worker = "early"
    /\ cfgOk
    /\ worker' = "persist"
    /\ UNCHANGED <<procVars, spc, eventVars, agentT, botT, watchT, flagMtime,
                   watchLast, sigs, polls, stopBy, pyUnified, cfgOk, lastCycle,
                   inflight, exitCode, parentCode>>

\* agent.run returns 0 after the last _write_json
WorkerFinish ==
    /\ worker = "persist"
    /\ worker' = "idle"
    /\ inflight' = inflight - 1
    /\ lastCycle' = "ok"
    /\ agentT' = Resumed(agentT)
    /\ spc' = ResumedRun(spc)
    /\ UNCHANGED <<procVars, eventVars, botT, watchT, flagMtime, watchLast, sigs,
                   polls, stopBy, pyUnified, cfgOk, exitCode, parentCode>>

\* agent.run raises: _load_config on a missing or invalid document, a probe,
\* or a write of the snapshot or the diff
WorkerRaise ==
    /\ worker \in {"early", "persist"}
    /\ worker' = "idle"
    /\ inflight' = inflight - 1
    /\ lastCycle' = "raised"
    /\ agentT' = Resumed(agentT)
    /\ spc' = ResumedRun(spc)
    /\ UNCHANGED <<procVars, eventVars, botT, watchT, flagMtime, watchLast, sigs,
                   polls, stopBy, pyUnified, cfgOk, exitCode, parentCode>>

\* wait_for(stop.wait(), timeout=interval_s): stop is set, or the interval ends
\* and wait_for raises asyncio.TimeoutError, which except TimeoutError catches
\* only where the two are the same class
AgentWait ==
    /\ agentT = "sleep"
    /\ agentT' = IF stop \/ pyUnified THEN "check" ELSE "raised"
    /\ lastCycle' = "none"
    /\ UNCHANGED <<procVars, spc, eventVars, botT, watchT, worker, flagMtime,
                   watchLast, sigs, polls, stopBy, pyUnified, cfgOk, inflight,
                   exitCode, parentCode>>

\* run_bot up to start_polling: RuntimeError when the token or the allowed
\* users are missing
BotStart ==
    /\ botT = "start"
    /\ \E ready \in BOOLEAN : botT' = IF ready THEN "polling" ELSE "raised"
    /\ UNCHANGED <<procVars, spc, eventVars, agentT, watchT, worker, flagMtime,
                   watchLast, sigs, polls, stopBy, pyUnified, cfgOk,
                   lastCycle, inflight, exitCode, parentCode>>

\* dp.start_polling keeps polling: one more round of getUpdates
BotPoll ==
    /\ botT = "polling"
    /\ polls' = 1 - polls
    /\ UNCHANGED <<procVars, spc, eventVars, taskVars, flagMtime, watchLast, sigs,
                   stopBy, pyUnified, cfgOk, lastCycle, inflight,
                   exitCode, parentCode>>

\* dp.start_polling returns
BotReturn ==
    /\ botT = "polling"
    /\ botT' = "returned"
    /\ UNCHANGED <<procVars, spc, eventVars, agentT, watchT, worker, flagMtime,
                   watchLast, sigs, polls, stopBy, pyUnified, cfgOk,
                   lastCycle, inflight, exitCode, parentCode>>

\* dp.start_polling raises
BotRaise ==
    /\ botT = "polling"
    /\ botT' = "raised"
    /\ UNCHANGED <<procVars, spc, eventVars, agentT, watchT, worker, flagMtime,
                   watchLast, sigs, polls, stopBy, pyUnified, cfgOk,
                   lastCycle, inflight, exitCode, parentCode>>

\* Mutant of WatchInit: the baseline is 0.0 whatever the marker's time is
WatchInitZero ==
    /\ watchT = "init"
    /\ watchLast' = 0
    /\ watchT' = "check"
    /\ UNCHANGED <<procVars, spc, eventVars, agentT, botT, worker, flagMtime, sigs,
                   polls, stopBy, pyUnified, cfgOk, lastCycle, inflight,
                   exitCode, parentCode>>

\* watch_restart_flag: last = path.stat().st_mtime, 0.0 when it fails
WatchInit ==
    /\ watchT = "init"
    /\ watchLast' = flagMtime
    /\ watchT' = "check"
    /\ UNCHANGED <<procVars, spc, eventVars, agentT, botT, worker, flagMtime, sigs,
                   polls, stopBy, pyUnified, cfgOk, lastCycle, inflight,
                   exitCode, parentCode>>

\* watch_restart_flag: while not stop.is_set()
WatchCheck ==
    /\ watchT = "check"
    /\ watchT' = IF stop THEN "done" ELSE "sleep"
    /\ UNCHANGED <<procVars, spc, eventVars, agentT, botT, worker, flagMtime,
                   watchLast, sigs, polls, stopBy, pyUnified, cfgOk,
                   lastCycle, inflight, exitCode, parentCode>>

\* watch_restart_flag: after the sleep, request_restart on a changed mtime
WatchPoll ==
    /\ watchT = "sleep"
    /\ IF flagMtime # 0 /\ flagMtime # watchLast
       THEN /\ restart' = TRUE /\ stop' = TRUE /\ watchT' = "done"
            /\ stopBy' = IF stop THEN stopBy ELSE "restart"
       ELSE UNCHANGED <<eventVars, stopBy>> /\ watchT' = "check"
    /\ UNCHANGED <<procVars, spc, agentT, botT, worker, flagMtime, watchLast, sigs,
                   polls, pyUnified, cfgOk, lastCycle, inflight,
                   exitCode, parentCode>>

\* control.restart: the marker is rewritten with the current time
Touch ==
    /\ flagMtime < MaxTouch
    /\ flagMtime' = flagMtime + 1
    /\ UNCHANGED <<procVars, spc, eventVars, taskVars, watchLast, sigs, polls,
                   stopBy, pyUnified, cfgOk, lastCycle, inflight,
                   exitCode, parentCode>>

HandlersInstalled == spc \in {"wait", "finally", "gather", "exec", "exit"}

\* SIGINT/SIGTERM: request_stop
SigTerm ==
    /\ HandlersInstalled
    /\ sigs < MaxSignals
    /\ sigs' = sigs + 1
    /\ stop' = TRUE
    /\ stopBy' = IF stop THEN stopBy ELSE "term"
    /\ UNCHANGED <<procVars, spc, restart, taskVars, flagMtime, watchLast, polls,
                   pyUnified, cfgOk, lastCycle, inflight, exitCode,
                   parentCode>>

\* SIGHUP/SIGUSR1: request_restart
SigHup ==
    /\ HandlersInstalled
    /\ sigs < MaxSignals
    /\ sigs' = sigs + 1
    /\ restart' = TRUE /\ stop' = TRUE
    /\ stopBy' = IF stop THEN stopBy ELSE "restart"
    /\ UNCHANGED <<procVars, spc, taskVars, flagMtime, watchLast, polls,
                   pyUnified, cfgOk, lastCycle, inflight, exitCode,
                   parentCode>>

AgentFinished == agentT \in {"none", "done", "raised"}
BotFinished == botT \in {"returned", "raised"}
WatchFinished == watchT = "done"

\* Mutant of WaitReturns: return_when=ALL_COMPLETED
WaitReturnsAllCompleted ==
    /\ spc = "wait"
    /\ AgentFinished /\ BotFinished /\ WatchFinished
    /\ spc' = "finally"
    /\ UNCHANGED <<procVars, eventVars, taskVars, flagMtime, watchLast, sigs, polls,
                   stopBy, pyUnified, cfgOk, lastCycle, inflight,
                   exitCode, parentCode>>

\* asyncio.wait(tasks, return_when=FIRST_EXCEPTION) returns: a task raised,
\* or every task finished
WaitReturns ==
    /\ spc = "wait"
    /\ \/ botT = "raised"
       \/ agentT = "raised"
       \/ AgentFinished /\ BotFinished /\ WatchFinished
    /\ spc' = "finally"
    /\ UNCHANGED <<procVars, eventVars, taskVars, flagMtime, watchLast, sigs, polls,
                   stopBy, pyUnified, cfgOk, lastCycle, inflight,
                   exitCode, parentCode>>

\* finally: stop.set(); every task is cancelled (a finished task ignores it,
\* a worker thread is not interrupted)
Finally ==
    /\ spc = "finally"
    /\ stop' = TRUE
    /\ stopBy' = IF stop THEN stopBy ELSE "finally"
    /\ agentT' = IF AgentFinished THEN agentT ELSE "cancelled"
    /\ botT' = IF BotFinished THEN botT ELSE "cancelled"
    /\ watchT' = IF WatchFinished THEN watchT ELSE "cancelled"
    /\ spc' = "gather"
    /\ UNCHANGED <<procVars, restart, worker, flagMtime, watchLast, sigs, polls,
                   pyUnified, cfgOk, lastCycle, inflight, exitCode,
                   parentCode>>

\* await asyncio.gather(*tasks, return_exceptions=True); if restart.is_set()
Gather ==
    /\ spc = "gather"
    /\ spc' = IF restart THEN "exec" ELSE "exit"
    /\ UNCHANGED <<procVars, eventVars, taskVars, flagMtime, watchLast, sigs, polls,
                   stopBy, pyUnified, cfgOk, lastCycle, inflight,
                   exitCode, parentCode>>

\* Mutant of KillThreads: the threads of the replaced image keep running
KeepThreads(n) == n

\* threads of the image that os.execv replaces
KillThreads(n) == 0

\* os.execv(sys.executable, args): the image is replaced in the same process,
\* the environment and the working directory are kept, threads are gone
Execv ==
    /\ spc = "exec"
    /\ LET cfg == CfgPathOf(cfgPath, cwd)
       IN  /\ argv' = RelaunchArgs(cfg, argv.no_agent)
           /\ launch' = [kind |-> "restart", cfg |-> cfgPath,
                         no_agent |-> argv.no_agent, pid |-> pid, live |-> livePids,
                         mtime |-> flagMtime]
    /\ spc' = "main"
    /\ cfgPath' = <<>>
    /\ stop' = FALSE /\ restart' = FALSE
    /\ agentT' = "none" /\ botT' = "none" /\ watchT' = "none"
    /\ worker' = "idle"
    /\ inflight' = KillThreads(inflight)
    /\ lastCycle' = "none"
    /\ polls' = 0
    /\ stopBy' = "none"
    /\ UNCHANGED <<cwd, envDaemon, envRoot, pid, parent, livePids, forks,
                   flagMtime, watchLast, sigs, pyUnified, cfgOk, exitCode,
                   parentCode>>

\* _run returns and asyncio.run closes the loop once the worker threads ended
Exit ==
    /\ spc = "exit"
    /\ inflight = 0
    /\ spc' = "terminated"
    /\ livePids' = livePids \ {pid}
    /\ exitCode' = 0
    /\ UNCHANGED <<argv, cwd, envDaemon, envRoot, pid, parent, cfgPath, launch,
                   forks, eventVars, taskVars, flagMtime, watchLast, sigs,
                   polls, stopBy, pyUnified, cfgOk, lastCycle, inflight,
                   parentCode>>

(***************************************************************************)
(* One sampling cycle, step by step: agent.run                             *)
(***************************************************************************)
\* the order in which _collect_snapshot calls the probes
ProbeOrder == <<"ports", "ssh", "firewall", "users", "logs", "updates">>

\* checks_cfg.get(cat, default) or notif_enabled; firewall has no `or`
Selected(cfg, cat) ==
    IF cat = "firewall" THEN cat \in cfg.checks
    ELSE cat \in cfg.checks \/ cfg.enabled

\* the checks section, notifications.enabled, and whether the environment
\* holds a token and recipients
CycleConfigs ==
    { [checks |-> {"ports", "ssh"}, enabled |-> TRUE, creds |-> TRUE],
      [checks |-> {"ports", "ssh", "firewall"}, enabled |-> TRUE, creds |-> TRUE],
      [checks |-> {"ports", "ssh", "firewall"}, enabled |-> TRUE, creds |-> FALSE],
      [checks |-> {"ssh", "logs"}, enabled |-> FALSE, creds |-> TRUE] }

\* the host as the probes meet it: whether `ss` is on PATH, and whether
\* /usr/sbin/ufw is absent, runs, or exists without being found on PATH
CycleHosts == [ss : BOOLEAN, ufw : {"absent", "runs", "notfound"}]

\* subprocess.run raises FileNotFoundError for a program that is not on PATH:
\* check_ports and check_firewall call it outside any try
ProbeRaises(cat, host) ==
    \/ cat = "ports" /\ ~host.ss
    \/ cat = "firewall" /\ host.ufw = "notfound"

\* the status of the category a probe returns
ProbeResult(cat, host) ==
    IF cat = "firewall" /\ host.ufw = "absent" THEN "warn" ELSE "ok"

\* snapshots/latest.json as the last cycle left it
PrevSnapDoc == [k \in {"meta", "ports", "ssh", "users"} |->
                   IF k = "meta" THEN "t0" ELSE "ok"]

\* notify_state.json as the last cycle left it
StoredStateDoc == [k \in {"ips", "logs_status"} |-> "ok"]

\* what a file holds
TextKinds == {"object", "empty_object", "list", "null", "number", "garbage",
              "badutf8", "empty"}

\* a file on disk: present or not, openable for reading or not, and its text
FilesOf(doc) ==
    {[exists |-> FALSE, readable |-> FALSE, text |-> "empty", doc |-> EmptyDoc]}
    \cup {[exists |-> TRUE, readable |-> FALSE, text |-> "object", doc |-> doc]}
    \cup {[exists |-> TRUE, readable |-> TRUE, text |-> t,
           doc |-> IF t = "object" THEN doc ELSE EmptyDoc] : t \in TextKinds}

\* json.load(f): the kind of value parsed, "raise" for text that is not JSON
\* (ValueError) or not UTF-8 (UnicodeDecodeError)
JsonLoad(text) ==
    CASE text \in {"object", "empty_object"} -> "dict"
      [] text = "list" -> "list"
      [] text = "null" -> "none"
      [] text = "number" -> "int"
      [] OTHER -> "raise"

\* Mutant of ReadJson: no try/except around open and json.load
ReadJsonNoCatch(file) ==
    IF ~file.exists THEN [raised |-> FALSE, present |-> FALSE, doc |-> EmptyDoc]
    ELSE IF ~file.readable \/ JsonLoad(file.text) = "raise"
    THEN [raised |-> TRUE, present |-> FALSE, doc |-> EmptyDoc]
    ELSE IF JsonLoad(file.text) = "dict"
    THEN [raised |-> FALSE, present |-> TRUE, doc |-> file.doc]
    ELSE [raised |-> FALSE, present |-> FALSE, doc |-> EmptyDoc]

\* _read_json: None for a missing file, for an exception of open or json.load,
\* and for a value that is not a dict; raised tells whether an exception
\* leaves the function
ReadJson(file) ==
    IF ~file.exists THEN [raised |-> FALSE, present |-> FALSE, doc |-> EmptyDoc]
    ELSE IF ~file.readable \/ JsonLoad(file.text) = "raise"
    THEN [raised |-> FALSE, present |-> FALSE, doc |-> EmptyDoc]
    ELSE IF JsonLoad(file.text) = "dict"
    THEN [raised |-> FALSE, present |-> TRUE, doc |-> file.doc]
    ELSE [raised |-> FALSE, present |-> FALSE, doc |-> EmptyDoc]

\* _read_state: data if isinstance(data, dict) else {}
ReadState(file) ==
    LET r == ReadJson(file)
    IN  [raised |-> r.raised, doc |-> IF r.present THEN r.doc ELSE EmptyDoc]

\* Mutant of StageAfter: the snapshot and the diff are saved before _notify
StageAfterSaveFirst(pc) ==
    CASE pc = "load" -> "read"
      [] pc = "read" -> "collect"
      [] pc = "collect" -> "diff"
      [] pc = "diff" -> "save_snap"
      [] pc = "save_snap" -> "save_diff"
      [] pc = "save_diff" -> "notify"
      [] pc = "notify" -> "done"

\* the statements of run in program order
StageAfter(pc) ==
    CASE pc = "load" -> "read"
      [] pc = "read" -> "collect"
      [] pc = "collect" -> "diff"
      [] pc = "diff" -> "notify"
      [] pc = "notify" -> "save_snap"
      [] pc = "save_snap" -> "save_diff"
      [] pc = "save_diff" -> "done"

Event(ev, cat) == [ev |-> ev, cat |-> cat]

CycleInit ==
    /\ cpc = "load"
    /\ ccfg \in CycleConfigs
    /\ chost \in CycleHosts
    /\ cfiles \in [snapshot : FilesOf(PrevSnapDoc), state : FilesOf(StoredStateDoc)]
    /\ cprev = NoPrev
    /\ cst = EmptyDoc
    /\ cprobe = 0
    /\ csnap = [k \in {"meta"} |-> "t1"]
    /\ cdiff = NoDiff
    /\ clog = <<>>
    /\ cwritten = {}
    /\ cerr = ""

CycleIdle ==
    /\ cpc = "done"
    /\ ccfg = [checks |-> {}, enabled |-> FALSE, creds |-> FALSE]
    /\ chost = [ss |-> TRUE, ufw |-> "absent"]
    /\ cfiles = [snapshot |-> [exists |-> FALSE, readable |-> FALSE,
                               text |-> "empty", doc |-> EmptyDoc],
                 state |-> [exists |-> FALSE, readable |-> FALSE,
                            text |-> "empty", doc |-> EmptyDoc]]
    /\ cprev = NoPrev
    /\ cst = EmptyDoc
    /\ cprobe = 0
    /\ csnap = [k \in {"meta"} |-> "t1"]
    /\ cdiff = NoDiff
    /\ clog = <<>>
    /\ cwritten = {}
    /\ cerr = ""

\* config = _load_config(cfg_path) up to _ensure_dirs
CycleLoad ==
    /\ cpc = "load"
    /\ cpc' = StageAfter("load")
    /\ UNCHANGED <<ccfg, chost, cfiles, cprev, cst, cprobe, csnap, cdiff, clog,
                   cwritten, cerr>>

\* prev = _read_json(latest_snapshot)
CycleReadPrev ==
    /\ cpc = "read"
    /\ LET r == ReadJson(cfiles.snapshot)
       IN  IF r.raised
           THEN cpc' = "raised" /\ cerr' = "read" /\ UNCHANGED cprev
           ELSE /\ cpc' = StageAfter("read")
                /\ cprev' = [present |-> r.present, doc |-> r.doc]
                /\ UNCHANGED cerr
    /\ clog' = Append(clog, Event("read_prev", ""))
    /\ UNCHANGED <<ccfg, chost, cfiles, cst, cprobe, csnap, cdiff, cwritten>>

\* _collect_snapshot: the next probe in order; an exception of a probe leaves
\* _collect_snapshot and run
CycleProbe ==
    /\ cpc = "collect"
    /\ cprobe < Len(ProbeOrder)
    /\ LET cat == ProbeOrder[cprobe + 1]
       IN  IF ~Selected(ccfg, cat)
           THEN UNCHANGED <<cpc, csnap, clog, cerr>>
           ELSE IF ProbeRaises(cat, chost)
           THEN /\ cpc' = "raised" /\ cerr' = "probe"
                /\ clog' = Append(clog, Event("probe_raised", cat))
                /\ UNCHANGED csnap
           ELSE /\ csnap' = [k \in DOMAIN csnap \cup {cat} |->
                               IF k = cat THEN ProbeResult(cat, chost) ELSE csnap[k]]
                /\ clog' = Append(clog, Event("probe", cat))
                /\ UNCHANGED <<cpc, cerr>>
    /\ cprobe' = cprobe + 1
    /\ UNCHANGED <<ccfg, chost, cfiles, cprev, cst, cdiff, cwritten>>

\* return snapshot
CycleCollected ==
    /\ cpc = "collect"
    /\ cprobe = Len(ProbeOrder)
    /\ cpc' = StageAfter("collect")
    /\ UNCHANGED <<ccfg, chost, cfiles, cprev, cst, cprobe, csnap, cdiff, clog,
                   cwritten, cerr>>

\* diff = _diff(prev, cur)
CycleDiff ==
    /\ cpc = "diff"
    /\ cdiff' = Diff(cprev, csnap)
    /\ clog' = Append(clog, Event("diff", ""))
    /\ cpc' = StageAfter("diff")
    /\ UNCHANGED <<ccfg, chost, cfiles, cprev, cst, cprobe, csnap, cwritten, cerr>>

\* _notify up to st = _read_state(st_path), or one of its early returns
CycleNotify ==
    /\ cpc = "notify"
    /\ IF ~ccfg.enabled \/ ~ccfg.creds
       THEN cpc' = StageAfter("notify") /\ UNCHANGED <<cst, clog, cerr>>
       ELSE LET r == ReadState(cfiles.state)
            IN  /\ clog' = Append(clog, Event("read_state", ""))
                /\ IF r.raised
                   THEN cpc' = "raised" /\ cerr' = "read" /\ UNCHANGED cst
                   ELSE cpc' = "send" /\ cst' = r.doc /\ UNCHANGED cerr
    /\ UNCHANGED <<ccfg, chost, cfiles, cprev, cprobe, csnap, cdiff, cwritten>>

\* _notify: the dispatch loop; a send that raises is skipped
CycleSend ==
    /\ cpc = "send"
    /\ \E ev \in {"no_alert", "send", "send_failed"} :
          clog' = Append(clog, Event(ev, ""))
    /\ cpc' = "write_state"
    /\ UNCHANGED <<ccfg, chost, cfiles, cprev, cst, cprobe, csnap, cdiff,
                   cwritten, cerr>>

\* _notify: try: _write_state(st_path, next_state) except Exception: return
CycleWriteState ==
    /\ cpc = "write_state"
    /\ \E ok \in BOOLEAN :
          cwritten' = IF ok THEN cwritten \cup {"notify_state"} ELSE cwritten
    /\ clog' = Append(clog, Event("write_state", ""))
    /\ cpc' = StageAfter("notify")
    /\ UNCHANGED <<ccfg, chost, cfiles, cprev, cst, cprobe, csnap, cdiff, cerr>>

\* _write_json(snapshot_ts_path, cur); _write_json(latest_snapshot, cur)
CycleSaveSnapshot ==
    /\ cpc = "save_snap"
    /\ cwritten' = cwritten \cup {"snapshot"}
    /\ clog' = Append(clog, Event("write_snapshot", ""))
    /\ cpc' = StageAfter("save_snap")
    /\ UNCHANGED <<ccfg, chost, cfiles, cprev, cst, cprobe, csnap, cdiff, cerr>>

\* _write_json(diff_ts_path, diff); _write_json(latest_diff, diff); return 0
CycleSaveDiff ==
    /\ cpc = "save_diff"
    /\ cwritten' = cwritten \cup {"diff"}
    /\ clog' = Append(clog, Event("write_diff", ""))
    /\ cpc' = StageAfter("save_diff")
    /\ UNCHANGED <<ccfg, chost, cfiles, cprev, cst, cprobe, csnap, cdiff, cerr>>

(***************************************************************************)
(* The sampling interval: run.py 120-125                                   *)
(***************************************************************************)
MaxInterval == 12   \* largest magnitude of a configured number
MaxText == 3        \* longest configured text

\* characters of a configured text
TextChars == {"-", "0", "1", "7", ".", "a", " "}

Texts == UNION {[1..n -> TextChars] : n \in 0..MaxText}

\* what yaml.safe_load gives for monitor_interval_seconds: nothing, null, an
\* integer, a boolean, a float (its integer part, whether a fraction is left,
\* or an infinity or NaN), a text, a list
IntervalValues ==
    {[k |-> "absent"], [k |-> "null"]}
    \cup {[k |-> "int", v |-> n] : n \in -MaxInterval..MaxInterval}
    \cup {[k |-> "bool", v |-> b] : b \in BOOLEAN}
    \cup {[k |-> "float", whole |-> n, frac |-> f, special |-> "finite"] :
              n \in -MaxInterval..MaxInterval, f \in BOOLEAN}
    \cup {[k |-> "float", whole |-> 0, frac |-> FALSE, special |-> s] :
              s \in {"inf", "-inf", "nan"}}
    \cup {[k |-> "str", v |-> t] : t \in Texts}
    \cup {[k |-> "list", v |-> n] : n \in 0..1}

\* truth value of a configured value, as `or` tests it
Truthy(x) ==
    CASE x.k \in {"absent", "null"} -> FALSE
      [] x.k = "int" -> x.v # 0
      [] x.k = "bool" -> x.v
      [] x.k = "float" -> x.special # "finite" \/ x.whole # 0 \/ x.frac
      [] x.k = "str" -> x.v # <<>>
      [] x.k = "list" -> x.v # 0

\* str.strip() of the text int() is given
Strip(t) ==
    LET keep == {i \in DOMAIN t : t[i] # " "}
    IN  IF keep = {} THEN <<>>
        ELSE LET lo == CHOOSE i \in keep : \A j \in keep : i <= j
                 hi == CHOOSE i \in keep : \A j \in keep : j <= i
             IN  SubSeq(t, lo, hi)

DigitChars == {"0", "1", "7"}

DigitVal(ch) == IF ch = "0" THEN 0 ELSE IF ch = "1" THEN 1 ELSE 7

RECURSIVE DecVal(_)
\* value of a sequence of decimal digits
DecVal(ds) ==
    IF ds = <<>> THEN 0
    ELSE 10 * DecVal(SubSeq(ds, 1, Len(ds) - 1)) + DigitVal(ds[Len(ds)])

\* int(text): surrounding blanks dropped, an optional sign, then digits only;
\* anything else raises ValueError
ParseInt(t) ==
    LET s == Strip(t)
        neg == s # <<>> /\ s[1] = "-"
        ds == IF neg THEN Tail(s) ELSE s
    IN  IF ds # <<>> /\ \A i \in DOMAIN ds : ds[i] \in DigitChars
        THEN [ok |-> TRUE, v |-> IF neg THEN -DecVal(ds) ELSE DecVal(ds)]
        ELSE [ok |-> FALSE, v |-> 0]

\* int(x) for a truthy x: a float is truncated toward zero, an infinity or
\* NaN raises OverflowError or ValueError, a list raises TypeError
IntOf(x) ==
    CASE x.k = "int" -> [ok |-> TRUE, v |-> x.v]
      [] x.k = "bool" -> [ok |-> TRUE, v |-> 1]
      [] x.k = "float" -> IF x.special = "finite" THEN [ok |-> TRUE, v |-> x.whole]
                          ELSE [ok |-> FALSE, v |-> 0]
      [] x.k = "str" -> ParseInt(x.v)
      [] OTHER -> [ok |-> FALSE, v |-> 0]

Max(a, b) == IF a > b THEN a ELSE b

\* Mutant of EffectiveInterval: no floor
EffectiveIntervalNoFloor(x) ==
    IF ~Truthy(x) THEN 10
    ELSE IF IntOf(x).ok THEN IntOf(x).v ELSE 10

\* interval_s: int(config.get(...) or 10), 10 when int raises, then max(2, _)
EffectiveInterval(x) ==
    LET n == IF ~Truthy(x) THEN 10
             ELSE IF IntOf(x).ok THEN IntOf(x).v ELSE 10
    IN  Max(2, n)

\* interval_s = 10 before the configured value is looked at
IntervalInit ==
    /\ icfg \in IntervalValues
    /\ ival = 10
    /\ ipc = "load"

IntervalIdle ==
    /\ icfg = [k |-> "absent"]
    /\ ival = 10
    /\ ipc = "idle"

\* _run: the try block and the max
IntervalStep ==
    /\ ipc = "load"
    /\ ival' = EffectiveInterval(icfg)
    /\ ipc' = "done"
    /\ UNCHANGED icfg

(***************************************************************************)
(* The control files: the pid file (run.py 235) and the restart marker     *)
(* (control.py 18-21), both written with Path.write_text                   *)
(***************************************************************************)
MaxWrites == 2      \* writes of control files in one behaviour

ControlFiles == {"pid", "flag"}

\* process ids the daemonizing parent may get from Popen
Pids == {7, 42}

\* seconds at which control.restart may run
Times == {3, 15}

\* str(p.pid) for the pid file, str(time.time()) for the marker
FileTexts(name) ==
    IF name = "pid" THEN {DecStr(p) : p \in Pids}
    ELSE {DecStr(t) \o ".5" : t \in Times}

NoFile == [present |-> FALSE, text |-> ""]

NothingSeen == [k |-> "none", name |-> "", text |-> ""]

ControlInit ==
    /\ ffiles \in [ControlFiles -> {NoFile}]
                  \cup {[pid |-> NoFile, flag |-> [present |-> TRUE, text |-> t]] :
                            t \in FileTexts("flag")}
                  \cup {[pid |-> [present |-> TRUE, text |-> p], flag |-> NoFile] :
                            p \in FileTexts("pid")}
    /\ fpc = "idle"
    /\ fname = ""
    /\ ftext = ""
    /\ fseen = NothingSeen
    /\ fwrites = 0

ControlIdle ==
    /\ ffiles = [n \in ControlFiles |-> NoFile]
    /\ fpc = "idle"
    /\ fname = ""
    /\ ftext = ""
    /\ fseen = NothingSeen
    /\ fwrites = 0

\* Path.write_text: open(path, "w") creates the file or truncates it in place
WriteTextOpen ==
    /\ fpc = "idle"
    /\ fwrites < MaxWrites
    /\ \E name \in ControlFiles : \E text \in FileTexts(name) :
          /\ ffiles' = [ffiles EXCEPT ![name] = [present |-> TRUE, text |-> ""]]
          /\ fname' = name
          /\ ftext' = text
    /\ fpc' = "opened"
    /\ fwrites' = fwrites + 1
    /\ UNCHANGED fseen

\* Path.write_text: f.write(data) and the close that flushes it
WriteTextFlush ==
    /\ fpc = "opened"
    /\ ffiles' = [ffiles EXCEPT ![fname] = [present |-> TRUE, text |-> ftext]]
    /\ fpc' = "idle"
    /\ UNCHANGED <<fname, ftext, fseen, fwrites>>

\* an external controller reads a control file: kill $(cat pid_path)
ReadFile ==
    /\ \E name \in ControlFiles :
          fseen' = IF ffiles[name].present
                   THEN [k |-> "text", name |-> name, text |-> ffiles[name].text]
                   ELSE [k |-> "missing", name |-> name, text |-> ""]
    /\ UNCHANGED <<ffiles, fpc, fname, ftext, fwrites>>

\* watch_restart_flag: path.stat() of the marker, 0.0 when it is missing
StatFlag ==
    /\ fseen' = IF ffiles["flag"].present
                THEN [k |-> "stat", name |-> "flag", text |-> ffiles["flag"].text]
                ELSE [k |-> "missing", name |-> "flag", text |-> ""]
    /\ UNCHANGED <<ffiles, fpc, fname, ftext, fwrites>>

(***************************************************************************)
(* The query service: bot/handlers.py build_router, bot/app.py run_bot     *)
(***************************************************************************)
MaxMessages == 2    \* inbound messages in one behaviour

\* Telegram user ids; NoSender is a message whose from_user is None
UserIds == {1, 2, 3}
NoSender == [has |-> FALSE, id |-> 0]
Senders == {NoSender} \cup {[has |-> TRUE, id |-> u] : u \in UserIds}

\* the slash commands of the router
CommandTexts == {"/start", "/help", "/status", "/endpoints", "/diff", "/report"}

\* the menu-button texts of the router, in Latin letters: "[x] Word" stands
\* for the text with its pictogram, "Word" for the plain one; the report
\* button is matched in both of its spellings
ButtonTexts ==
    {"[status] Status", "Status", "[endpoints] Connect", "Connect",
     "[diff] Changes", "Changes", "[report] Otchyot", "Otchyot", "Otchet",
     "[help] Help", "Help"}

\* texts no handler is registered for
OtherTexts == {"hello", "/restart"}

InboundTexts == CommandTexts \cup ButtonTexts \cup OtherTexts

\* the handler the router picks for a text: the cmd_* function that ends up
\* answering, "" when no handler matches
Route(text) ==
    CASE text = "/start" -> "start"
      [] text \in {"/help", "[help] Help", "Help"} -> "help"
      [] text \in {"/status", "[status] Status", "Status"} -> "status"
      [] text \in {"/endpoints", "[endpoints] Connect", "Connect"} -> "endpoints"
      [] text \in {"/diff", "[diff] Changes", "Changes"} -> "diff"
      [] text \in {"/report", "[report] Otchyot", "Otchyot", "Otchet"} -> "report"
      [] OTHER -> ""

\* Mutant of IsAllowed: a message without sender passes
IsAllowedNoSender(sender, allowed) == ~sender.has \/ sender.id \in allowed

\* _is_allowed: uid = from_user.id or None; uid in allowed
IsAllowed(sender, allowed) == sender.has /\ sender.id \in allowed

\* the persisted files the query service looks at, and notify_state.json
QueryFiles == {"snapshot", "diff", "notify_state"}
FileVersions == {"none", "v1", "v2"}

\* Mutant of FileOps: the report handler stores what it has formatted
FileOpsCaching(route) ==
    CASE route = "status" -> <<[op |-> "stat", file |-> "snapshot"],
                              [op |-> "stat", file |-> "diff"],
                              [op |-> "read", file |-> "snapshot"]>>
      [] route = "endpoints" -> <<[op |-> "read", file |-> "snapshot"]>>
      [] route = "diff" -> <<[op |-> "read", file |-> "diff"]>>
      [] route = "report" -> <<[op |-> "read", file |-> "snapshot"],
                              [op |-> "read", file |-> "diff"],
                              [op |-> "write", file |-> "diff"]>>
      [] OTHER -> <<>>

\* the file accesses of the reply builders, in order: _file_mtime_iso is a
\* stat, _read_json is exists() and open("r")
FileOps(route) ==
    CASE route = "status" -> <<[op |-> "stat", file |-> "snapshot"],
                              [op |-> "stat", file |-> "diff"],
                              [op |-> "read", file |-> "snapshot"]>>
      [] route = "endpoints" -> <<[op |-> "read", file |-> "snapshot"]>>
      [] route = "diff" -> <<[op |-> "read", file |-> "diff"]>>
      [] route = "report" -> <<[op |-> "read", file |-> "snapshot"],
                              [op |-> "read", file |-> "diff"]>>
      [] OTHER -> <<>>

\* the files after one access: a stat or a read leaves them as they are, a
\* write makes the file exist with new content
ApplyOp(files, o) ==
    IF o.op = "write" THEN [files EXCEPT ![o.file] = "v2"] ELSE files

RECURSIVE ApplyOps(_, _)
ApplyOps(files, ops) ==
    IF ops = <<>> THEN files ELSE ApplyOps(ApplyOp(files, Head(ops)), Tail(ops))

\* what the accesses hand to the formatter: the version each one found
Gathered(files, ops) == [i \in DOMAIN ops |-> files[ops[i].file]]

NoReply == [kind |-> "", uid |-> NoSender, data |-> <<>>]

\* _access_denied_text(uid): the fixed text, and the sender's own id if any
DeniedReply(sender) == [kind |-> "denied", uid |-> sender, data |-> <<>>]

\* the answer of a handler: message.answer(...), nothing without a handler
Reply(sender, text, allowed, files) ==
    IF Route(text) = "" THEN NoReply
    ELSE IF ~IsAllowed(sender, allowed) THEN DeniedReply(sender)
    ELSE [kind |-> Route(text), uid |-> NoSender,
          data |-> Gathered(files, FileOps(Route(text)))]

NoMessage == [sender |-> NoSender, text |-> ""]

\* run_bot goes on to poll only with a non-empty allowed set
BotInit ==
    /\ bfiles \in [QueryFiles -> {"none", "v1"}]
    /\ ballowed \in (SUBSET {1, 2}) \ {{}}
    /\ bmsg = NoMessage
    /\ breply = NoReply
    /\ bcount = 0

BotIdle ==
    /\ bfiles = [f \in QueryFiles |-> "none"]
    /\ ballowed = {}
    /\ bmsg = NoMessage
    /\ breply = NoReply
    /\ bcount = 0

\* one inbound message is dispatched to its handler and answered
HandleMessage ==
    /\ bcount < MaxMessages
    /\ \E sender \in Senders, text \in InboundTexts :
          /\ bmsg' = [sender |-> sender, text |-> text]
          /\ breply' = Reply(sender, text, ballowed, bfiles)
          /\ bfiles' = IF Route(text) # "" /\ IsAllowed(sender, ballowed)
                       THEN ApplyOps(bfiles, FileOps(Route(text)))
                       ELSE bfiles
    /\ bcount' = bcount + 1
    /\ UNCHANGED ballowed

\* the sampling pipeline, the owner of the files, writes a new version
PipelineWrite ==
    /\ \E f \in QueryFiles, v \in {"v1", "v2"} :
          /\ bfiles[f] # v
          /\ bfiles' = [bfiles EXCEPT ![f] = v]
    /\ UNCHANGED <<ballowed, bmsg, breply, bcount>>

AuxIdle == IntervalIdle /\ ControlIdle /\ BotIdle

coreVars == <<diffVars, storeVars, notifyVars, supVars, cycleVars>>
CoreIdle == DiffIdle /\ StoreIdle /\ NotifyIdle /\ SupIdle /\ CycleIdle

InitInterval == CoreIdle /\ IntervalInit /\ ControlIdle /\ BotIdle
NextInterval == IntervalStep /\ UNCHANGED <<coreVars, controlVars, botVars>>
SpecInterval == InitInterval /\ [][NextInterval]_vars

InitControl == CoreIdle /\ IntervalIdle /\ ControlInit /\ BotIdle
NextControl ==
    \/ WriteTextOpen /\ UNCHANGED <<coreVars, intervalVars, botVars>>
    \/ WriteTextFlush /\ UNCHANGED <<coreVars, intervalVars, botVars>>
    \/ ReadFile /\ UNCHANGED <<coreVars, intervalVars, botVars>>
    \/ StatFlag /\ UNCHANGED <<coreVars, intervalVars, botVars>>
SpecControl == InitControl /\ [][NextControl]_vars

InitBot == CoreIdle /\ IntervalIdle /\ ControlIdle /\ BotInit
NextBot ==
    \/ HandleMessage /\ UNCHANGED <<coreVars, intervalVars, controlVars>>
    \/ PipelineWrite /\ UNCHANGED <<coreVars, intervalVars, controlVars>>
SpecBot == InitBot /\ [][NextBot]_vars

InitDiff == DiffInit /\ StoreIdle /\ NotifyIdle /\ SupIdle /\ CycleIdle /\ AuxIdle
NextDiff == DiffStep /\ UNCHANGED <<storeVars, notifyVars, supVars, cycleVars, auxVars>>
SpecDiff == InitDiff /\ [][NextDiff]_vars

InitStore == DiffIdle /\ StoreInit /\ NotifyIdle /\ SupIdle /\ CycleIdle /\ AuxIdle
NextStore ==
    \/ WOpen /\ UNCHANGED <<diffVars, notifyVars, supVars, cycleVars, auxVars>>
    \/ WWrite /\ UNCHANGED <<diffVars, notifyVars, supVars, cycleVars, auxVars>>
    \/ WClose /\ UNCHANGED <<diffVars, notifyVars, supVars, cycleVars, auxVars>>
    \/ WFail /\ UNCHANGED <<diffVars, notifyVars, supVars, cycleVars, auxVars>>
    \/ WReplace /\ UNCHANGED <<diffVars, notifyVars, supVars, cycleVars, auxVars>>
    \/ RExists /\ UNCHANGED <<diffVars, notifyVars, supVars, cycleVars, auxVars>>
    \/ ROpen /\ UNCHANGED <<diffVars, notifyVars, supVars, cycleVars, auxVars>>
    \/ RRead /\ UNCHANGED <<diffVars, notifyVars, supVars, cycleVars, auxVars>>
    \/ RParse /\ UNCHANGED <<diffVars, notifyVars, supVars, cycleVars, auxVars>>
    \/ RAgain /\ UNCHANGED <<diffVars, notifyVars, supVars, cycleVars, auxVars>>
SpecStore == InitStore /\ [][NextStore]_vars

InitNotify == DiffIdle /\ StoreIdle /\ NotifyVarsInit /\ SupIdle /\ CycleIdle /\ AuxIdle
NextNotify ==
    \/ AgentCycle /\ UNCHANGED <<diffVars, storeVars, supVars, cycleVars, auxVars>>
    \/ ManagerCycle /\ UNCHANGED <<diffVars, storeVars, supVars, cycleVars, auxVars>>
SpecNotify == InitNotify /\ [][NextNotify]_vars

InitSup == DiffIdle /\ StoreIdle /\ NotifyIdle /\ SupInit /\ CycleIdle /\ AuxIdle
otherVars == <<diffVars, storeVars, notifyVars, cycleVars, auxVars>>

\* the steps of the supervisor coroutine and of the module level
SupSteps ==
    \/ MainDaemonize
    \/ MainForeground
    \/ FirstCycle
    \/ FirstReturn
    \/ Setup
    \/ WaitReturns
    \/ Finally
    \/ Gather
    \/ Execv
    \/ Exit

AgentSteps == AgentCheck \/ AgentWait

WatchSteps == WatchInit \/ WatchCheck \/ WatchPoll

WorkerSteps == WorkerNotified \/ WorkerFinish \/ WorkerRaise

NextSup ==
    \/ Touch /\ UNCHANGED otherVars
    \/ SigTerm /\ UNCHANGED otherVars
    \/ SigHup /\ UNCHANGED otherVars
    \/ BotReturn /\ UNCHANGED otherVars
    \/ BotRaise /\ UNCHANGED otherVars
    \/ MainDaemonize /\ UNCHANGED otherVars
    \/ ParentExit /\ UNCHANGED otherVars
    \/ MainForeground /\ UNCHANGED otherVars
    \/ FirstCycle /\ UNCHANGED otherVars
    \/ FirstReturn /\ UNCHANGED otherVars
    \/ Setup /\ UNCHANGED otherVars
    \/ AgentCheck /\ UNCHANGED otherVars
    \/ WorkerNotified /\ UNCHANGED otherVars
    \/ WorkerFinish /\ UNCHANGED otherVars
    \/ WorkerRaise /\ UNCHANGED otherVars
    \/ AgentWait /\ UNCHANGED otherVars
    \/ BotStart /\ UNCHANGED otherVars
    \/ BotPoll /\ UNCHANGED otherVars
    \/ WatchInit /\ UNCHANGED otherVars
    \/ WatchCheck /\ UNCHANGED otherVars
    \/ WatchPoll /\ UNCHANGED otherVars
    \/ WaitReturns /\ UNCHANGED otherVars
    \/ Finally /\ UNCHANGED otherVars
    \/ Gather /\ UNCHANGED otherVars
    \/ Execv /\ UNCHANGED otherVars
    \/ Exit /\ UNCHANGED otherVars
SpecSup == InitSup /\ [][NextSup]_vars

\* the event loop and the operating system run every coroutine, thread and
\* process that can take a step; signals, marker writes and the end of
\* polling are up to the environment
SupFairness ==
    /\ WF_vars(SupSteps /\ UNCHANGED otherVars)
    /\ WF_vars(AgentSteps /\ UNCHANGED otherVars)
    /\ WF_vars(WatchSteps /\ UNCHANGED otherVars)
    /\ WF_vars(WorkerSteps /\ UNCHANGED otherVars)
    /\ WF_vars((BotStart \/ BotPoll) /\ UNCHANGED otherVars)
    /\ WF_vars(ParentExit /\ UNCHANGED otherVars)

SpecSupFair == InitSup /\ [][NextSup]_vars /\ SupFairness

InitCycle == DiffIdle /\ StoreIdle /\ NotifyIdle /\ SupIdle /\ CycleInit /\ AuxIdle
restVars == <<diffVars, storeVars, notifyVars, supVars, auxVars>>
NextCycle ==
    \/ CycleLoad /\ UNCHANGED restVars
    \/ CycleReadPrev /\ UNCHANGED restVars
    \/ CycleProbe /\ UNCHANGED restVars
    \/ CycleCollected /\ UNCHANGED restVars
    \/ CycleDiff /\ UNCHANGED restVars
    \/ CycleNotify /\ UNCHANGED restVars
    \/ CycleSend /\ UNCHANGED restVars
    \/ CycleWriteState /\ UNCHANGED restVars
    \/ CycleSaveSnapshot /\ UNCHANGED restVars
    \/ CycleSaveDiff /\ UNCHANGED restVars
SpecCycle == InitCycle /\ [][NextCycle]_vars

(***************************************************************************)
(* Claims                                                                  *)
(***************************************************************************)

\* C1: for every current snapshot, _diff with an absent previous snapshot
\* returns status "ok", details "no_previous_snapshot" and an empty changed map.
C1_FirstRunDiff ==
    (dpc = "done" /\ ~dprev.present) =>
        /\ dout.status = "ok"
        /\ dout.details = "no_previous_snapshot"
        /\ DOMAIN dout.data.changed = {}

C1_Witness ==
    dpc = "done" /\ ~dprev.present /\ DOMAIN dcur = DiffKeys /\ dout.status = "ok"

\* Snapshots A and B both hold "ports", with different values, and agree on
\* every category other than "ports" and "meta".
DifferOnlyInPorts(A, B) ==
    /\ "ports" \in DOMAIN A /\ "ports" \in DOMAIN B
    /\ A["ports"] # B["ports"]
    /\ \A k \in DiffKeys \ {"ports", "meta"} :
          /\ (k \in DOMAIN A) = (k \in DOMAIN B)
          /\ k \in DOMAIN A => A[k] = B[k]

\* C2: for snapshots A, B that differ only in the value of "ports" (and possibly
\* in meta), _diff(A, B).changed has exactly the key "ports", mapped to
\* {before: A.ports, after: B.ports}.
C2_PortsOnlyDiff ==
    (dpc = "done" /\ dprev.present /\ DifferOnlyInPorts(dprev.doc, dcur)) =>
        dout.data.changed =
            [k \in {"ports"} |-> [before |-> dprev.doc["ports"], after |-> dcur["ports"]]]

C2_Witness ==
    /\ dpc = "done" /\ dprev.present /\ DifferOnlyInPorts(dprev.doc, dcur)
    /\ "meta" \in DOMAIN dcur /\ "meta" \in DOMAIN dprev.doc
    /\ dprev.doc["meta"] # dcur["meta"]
    /\ "ssh" \in DOMAIN dcur
    /\ DOMAIN dout.data.changed = {"ports"}

\* C3: a reader of snapshots/latest.json running concurrently with _write_json
\* obtains, at every interleaving of the writer's steps, a complete document
\* that was the latest one at some moment of the read (the previous or the new
\* snapshot), never a partially written one; it obtains None only when the
\* file did not exist when it looked.
C3_ReadAtomic ==
    rpc = "done" =>
        IF rres.ok
        THEN rres.ver >= 1 /\ rres.ver >= rstart /\ rres.ver <= committed
        ELSE rstart = 0

\* the reader opened the file while a write was in progress and finished
\* reading the previous document after the new one had replaced it
C3_Witness ==
    /\ rpc = "done" /\ rres.ok
    /\ rres.ver < committed
    /\ wpc = "writing" /\ wpos > 0

\* alerts of the last cycle with the given title
AlertsTitled(t) == {j \in DOMAIN nmsgs : nmsgs[j].title = t}

\* C4: suppression idempotence.  A cycle that sees the same snapshot as the
\* cycle before it, and starts from the NotificationState that cycle rebuilt,
\* builds no alert, whichever engine runs and whatever the flags are.
C4_SuppressionIdempotent ==
    (ncycles >= 2 /\ nsame /\ nprevWrote) => nmsgs = <<>>

\* a second run on a snapshot with new addresses, pending updates, a sudo
\* user and RulesCap firewall rules, with nothing suppressed by a flag
C4_Witness ==
    /\ ncycles >= 2 /\ nsame /\ nprevWrote /\ nran
    /\ engine = "manager"
    /\ ncfg.send_warning /\ ncfg.send_critical
    /\ ncur.firewall.k = "dict"
    /\ Len(ncur.firewall.data.rules.v) = RulesCap
    /\ nmsgs = <<>>

\* the update count stored at the start of the last cycle (a missing value
\* reads as 0) and the count of the current snapshot
C5_Stored ==
    IF nstPrev.updates_count.k = "int" THEN nstPrev.updates_count.v ELSE 0

C5_Current ==
    IF ncur.updates.k = "dict" /\ ncur.updates.data.count.k = "int"
    THEN ncur.updates.data.count.v ELSE 0

\* C5: with send_warning set, a cycle emits exactly one warn alert for pending
\* updates iff the stored count is 0 and the current count is > 0, and none
\* otherwise; the rewritten state stores the current count, so a 0 re-arms the
\* alert and a non-zero count silences it.
C5_UpdatesEdge ==
    (nran /\ ncfg.send_warning) =>
        /\ Cardinality(AlertsTitled("updates_available")) =
              (IF C5_Stored = 0 /\ C5_Current > 0 THEN 1 ELSE 0)
        /\ \A j \in AlertsTitled("updates_available") : nmsgs[j].level = "warn"
        /\ nwrote => nst.updates_count = JInt(C5_Current)

\* the cycle after one that stored count 0 sees 3 pending updates and alerts
C5_Witness ==
    /\ nran /\ ncfg.send_warning /\ ncycles = 2
    /\ nstPrev.updates_count = JInt(0)
    /\ C5_Current = 3
    /\ Cardinality(AlertsTitled("updates_available")) = 1
    /\ nwrote /\ nst.updates_count = JInt(3)

\* C6: in agent._notify, with an empty previous NotificationState (first run ever) and
\* logs.status "warn" or "crit", the log-severity detector emits no alert and
\* the rebuilt state records the current status.
C6_FirstCycleSuppressed ==
    (engine = "agent" /\ nran /\ nstPrev = EmptyState /\ ncur.logs.k = "dict"
          /\ ncur.logs.status \in {"warn", "crit"}) =>
        /\ AlertsTitled("logs_crit") = {}
        /\ AlertsTitled("logs_warn") = {}
        /\ nwrote => nst.logs_status = JStr(ncur.logs.status)

\* C7: delivery isolation.  In a cycle that reaches the dispatch loop every
\* alert is attempted for every recipient, in loop order, whichever sends
\* raise, and unless writing the state file itself fails the NotificationState
\* is rewritten to the fingerprints of the current snapshot.
C7_DeliveryIsolation ==
    nran =>
        /\ Len(natt) = Len(nmsgs) * Len(ncfg.recipients)
        /\ \A j \in DOMAIN natt :
              /\ natt[j].msg = ((j - 1) \div Len(ncfg.recipients)) + 1
              /\ natt[j].uid = ncfg.recipients[((j - 1) % Len(ncfg.recipients)) + 1]
        /\ ~nwfail =>
              /\ nwrote
              /\ nst.logs_status = JStr(ncur.logs.status)
              /\ nst.updates_count = JInt(C5_Current)
              /\ nst.ips = ncur.logs.data.ips

\* a send of the first alert raised, the other recipient and a later alert
\* were still attempted, and the state advanced
C7_Witness ==
    /\ nran /\ nwrote
    /\ Len(nmsgs) >= 2 /\ Len(ncfg.recipients) = 2
    /\ ~natt[1].ok /\ natt[2].ok /\ natt[2].msg = 1
    /\ natt[Len(natt)].msg = Len(nmsgs)
    /\ nst # nstPrev

\* C8: an image started by the supervisor's relaunch has --foreground, the
\* --no-agent setting and the resolved configuration path of the image it
\* replaced, runs in the same process with no process added, and no relaunched
\* image takes the daemonizing path.
C8_RestartPreservesConfig ==
    launch.kind = "restart" =>
        /\ argv.foreground
        /\ argv.no_agent = launch.no_agent
        /\ CfgPathOf(argv.config, cwd) = launch.cfg
        /\ cfgPath \in {<<>>, launch.cfg}
        /\ pid = launch.pid
        /\ livePids \subseteq launch.live
        /\ "restart" \notin forks

\* an instance the user started with --foreground and without
\* SECOPS_BUDDY_DAEMON, relaunched and running its tasks again
C8_Witness ==
    /\ launch.kind = "restart"
    /\ ~envDaemon
    /\ argv.no_agent
    /\ spc = "wait" /\ botT = "polling"
    /\ cfgPath = ProjectConfig /\ cwd = <<"/", "opt", "sb", "config">>

\* C9: restart liveness.  Once a restart is requested (marker change seen by
\* the watcher, or SIGHUP/SIGUSR1) while the supervisor waits on its running
\* tasks, the tasks are stopped and the process relaunches.
C9_RestartLiveness ==
    (spc = "wait" /\ restart /\ botT = "polling" /\ ~AgentFinished)
        ~> (spc = "main" /\ launch.kind = "restart")

\* C10: graceful stop liveness.  Once SIGINT/SIGTERM requested a stop while
\* the supervisor waits on its running tasks, every task is cancelled and
\* awaited and the process terminates (unless a restart request overtakes it).
C10_StopLiveness ==
    (spc = "wait" /\ stop /\ ~restart /\ botT = "polling" /\ ~AgentFinished)
        ~> (spc = "terminated" \/ restart)

\* C11: a relaunch happens only on a restart request (restart signal or
\* marker change seen by the watcher), and a stop that a termination signal
\* triggered never ends in a relaunch.
C11_RelaunchOnlyOnRestart ==
    spc = "exec" => (restart /\ stopBy # "term")

\* C12: a sampling cycle that raised is a skipped cycle.  While the supervisor
\* waits on its tasks, the sampling loop leaves the interval wait that follows
\* a raised cycle only to go round the loop again (the next cycle, or the end
\* of the loop when a stop was requested); it never ends with an exception.
C12_RaisedCycleSkipped ==
    [][(spc = "wait" /\ agentT = "sleep" /\ lastCycle = "raised"
            /\ agentT' # agentT)
        => agentT' = "check"]_vars

\* C13: the status of a diff is "warn" exactly when its changed map is
\* non-empty and "ok" otherwise, never "crit"; for a pair of snapshots the
\* details are "changed=<number of changed categories>" when the map is
\* non-empty and "no_changes" when it is empty.
C13_DiffStatusDetails ==
    dpc = "done" =>
        LET n == Cardinality(DOMAIN dout.data.changed)
        IN  /\ dout.status = (IF n = 0 THEN "ok" ELSE "warn")
            /\ dout.status # "crit"
            /\ ~Falsy(dprev) =>
                  dout.details = (IF n = 0 THEN "no_changes"
                                  ELSE <<"changed=1", "changed=2", "changed=3">>[n])

\* two snapshots that differ in the timestamp of meta, in ssh and in a users
\* entry that disappeared
C13_Witness ==
    /\ dpc = "done"
    /\ dprev.present
    /\ DOMAIN dprev.doc = DiffKeys /\ DOMAIN dcur = {"meta", "ports", "ssh"}
    /\ dprev.doc["meta"] # dcur["meta"]
    /\ dprev.doc["ports"] = dcur["ports"]
    /\ DOMAIN dout.data.changed = {"ssh", "users"}
    /\ dout.status = "warn" /\ dout.details = "changed=2"

\* C14: the state a cycle writes is the one rebuilt from the current snapshot,
\* whatever send_warning and send_critical are; so after any cycle that ran
\* and whose state file could be written, a cycle on the same snapshot with
\* both flags on builds no alert.
C14_StateIgnoresFlags ==
    (nran /\ ~nwfail) =>
        LET on == [ncfg EXCEPT !.send_warning = TRUE, !.send_critical = TRUE]
        IN  /\ nst = (IF engine = "agent" THEN NotifyNextState(ncur)
                      ELSE BuildNextState(ncur))
            /\ (IF engine = "agent" THEN NotifyMsgs(on, nst, ncur)
                ELSE ManagerMsgs(on, nst, ncur)) = <<>>

\* a cycle with both flags off on a host whose state changed: nothing is
\* built or sent, the detectors would have fired with the flags on, and the
\* stored state moved to the current snapshot
C14_Witness ==
    /\ nran /\ nwrote
    /\ ~ncfg.send_warning /\ ~ncfg.send_critical
    /\ nmsgs = <<>> /\ natt = <<>>
    /\ nst # nstPrev
    /\ LET on == [ncfg EXCEPT !.send_warning = TRUE, !.send_critical = TRUE]
       IN  (IF engine = "agent" THEN NotifyMsgs(on, nstPrev, ncur)
            ELSE ManagerMsgs(on, nstPrev, ncur)) # <<>>

\* the stage of the cycle an entry of the log belongs to: collection, diff,
\* notification engine, persistence
C15_Rank(e) ==
    CASE e.ev \in {"read_prev", "probe", "probe_raised"} -> 1
      [] e.ev = "diff" -> 2
      [] e.ev \in {"read_state", "no_alert", "send", "send_failed", "write_state"} -> 3
      [] e.ev \in {"write_snapshot", "write_diff"} -> 4

C15_Probed == {clog[i].cat : i \in {j \in DOMAIN clog : clog[j].ev = "probe"}}

\* C15: within a cycle every selected category is collected before the diff
\* is computed, the diff is computed before the notification engine runs, and
\* the notification engine, its sends and its state write included, is over
\* before the snapshot and the diff are written.
C15_StepOrder ==
    /\ \A i, j \in DOMAIN clog :
          i < j => C15_Rank(clog[i]) <= C15_Rank(clog[j])
    /\ (\E i \in DOMAIN clog : clog[i].ev = "diff") =>
          C15_Probed = {ProbeOrder[k] : k \in {n \in DOMAIN ProbeOrder :
                                                Selected(ccfg, ProbeOrder[n])}}
    /\ "snapshot" \in cwritten => cdiff # NoDiff
    /\ "diff" \in cwritten => "snapshot" \in cwritten

\* a finished cycle that collected six categories, sent an alert, wrote the
\* state and then the snapshot and the diff
C15_Witness ==
    /\ cpc = "done"
    /\ Cardinality(C15_Probed) = Len(ProbeOrder)
    /\ \E i \in DOMAIN clog : clog[i].ev = "send"
    /\ cwritten = {"notify_state", "snapshot", "diff"}
    /\ clog[Len(clog)].ev = "write_diff"

\* C16: sampling cycles never overlap, in one image and across a relaunch: at
\* most one thread runs run_agent at any time, and a cycle starts only when
\* no cycle is running, also after its task was cancelled with the cycle
\* still in its thread.
C16_NoOverlap ==
    [][/\ inflight <= 1
       /\ inflight' > inflight => (inflight = 0 /\ worker = "idle")]_vars

\* a relaunched image whose loop task was cancelled while the cycle it started
\* is still writing in its worker thread
C16_Witness ==
    /\ launch.kind = "restart"
    /\ agentT = "cancelled"
    /\ worker = "persist" /\ inflight = 1
    /\ spc \in {"gather", "exec", "exit"}

\* C17: a cycle that got past the notification engine finishes writing the
\* snapshot and the diff before the process terminates or replaces itself:
\* the step that ends the image is never taken with the worker thread between
\* _notify and the last _write_json.
C17_PersistBeforeEnd ==
    [][((spc # "terminated" /\ spc' = "terminated") \/ (spc = "exec" /\ spc' # "exec"))
        => worker # "persist"]_vars

\* a file that is missing, cannot be opened, is not JSON, or holds a JSON
\* value that is not an object
C18_Unusable(file) ==
    \/ ~file.exists
    \/ ~file.readable
    \/ file.text \notin {"object", "empty_object"}

C18_Logged(ev) == \E i \in DOMAIN clog : clog[i].ev = ev

C19_ConfigErrorExit ==
    ~cfgOk => (exitCode # 0 /\ parentCode # 0)

\* C20: a probe that raises is isolated: no cycle is ended by an exception of
\* a probe, and every cycle of the host, whatever its probes do, runs to the
\* end with its snapshot written.
C20_ProbeFailureIsolated ==
    /\ ~(cpc = "raised" /\ cerr = "probe")
    /\ (cpc = "done" /\ clog # <<>>) => "snapshot" \in cwritten

\* C21: a detector with no prior value recorded for its slice of the
\* NotificationState emits no alert and only adopts the current value: a cycle
\* that starts from the empty state builds no alert.
C21_NoPriorNoAlert ==
    (nran /\ nstPrev = EmptyState) => nmsgs = <<>>

\* the ports category of the last snapshot is missing or holds no usable entry
\* (the probe failed and reported none)
C22_PortsDegraded ==
    \/ ~HasData(ncur.ports)
    \/ ncur.ports.status # "ok" /\ ListOr(ncur.ports.data.entries) = <<>>

\* C22: when the ports category is missing from the current snapshot or its
\* payload is unusable, the port detector emits no alert in that cycle and the
\* rebuilt state holds an empty port fingerprint.
C22_DegradedNoAlert ==
    (nran /\ C22_PortsDegraded) =>
        /\ AlertsTitled("ports_changed") = {}
        /\ nwrote => nst.ports = JList(<<>>)

\* C23: whatever JSON values the snapshot and the stored NotificationState
\* hold, no exception leaves the extractors of the notification engine.
C23_ExtractorsNeverRaise ==
    ~nraised

\* the status of the logs category in the last snapshot and the logs_status
\* stored at the start of the last cycle ("" when missing)
C24_CurStatus == IF ncur.logs.k = "dict" THEN ncur.logs.status ELSE ""

C24_Stored == IF nstPrev.logs_status.k = "str" THEN nstPrev.logs_status.v ELSE ""

\* the flag matching the current status is set
C24_Flag ==
    \/ C24_CurStatus = "crit" /\ ncfg.send_critical
    \/ C24_CurStatus = "warn" /\ ncfg.send_warning

C24_LogAlerts == AlertsTitled("logs_crit") \cup AlertsTitled("logs_warn")

\* C24: log-severity detector, at every cycle of any sequence.  A log alert
\* is built iff the current logs.status is "warn" or "crit", differs from the
\* stored logs_status and the flag matching it is set; there is at most one,
\* its severity is the current status; a cycle at the stored elevated level
\* builds none.
C24_LogSeverityEdge ==
    nran =>
        /\ Cardinality(C24_LogAlerts) <= 1
        /\ (C24_LogAlerts # {}) <=>
              (/\ C24_CurStatus \in {"warn", "crit"}
               /\ C24_CurStatus # C24_Stored
               /\ C24_Flag)
        /\ \A j \in C24_LogAlerts :
              /\ nmsgs[j].level = C24_CurStatus
              /\ nmsgs[j].title = "logs_" \o C24_CurStatus
        /\ (C24_CurStatus = C24_Stored) => C24_LogAlerts = {}

\* two cycles in a row at "crit" with both flags set: the first rewrote the
\* state, the second builds no log alert
C24_Witness ==
    /\ engine = "agent"
    /\ ncycles >= 2 /\ nran /\ nprevWrote
    /\ ncfg.send_warning /\ ncfg.send_critical
    /\ C24_Stored = "crit" /\ C24_CurStatus = "crit"
    /\ C24_LogAlerts = {}

\* the enabled flag and the set of rules of the firewall fingerprint stored at
\* the start of the last cycle, and of the last snapshot
C25_StoredEnabled(b) == nstPrev.firewall.enabled = JBool(b)

C25_CurEnabled(b) == CurFwEnabled(ncur) = JBool(b)

C25_StoredRules == SeqToSet(nstPrev.firewall.rules)

C25_CurRules == SeqToSet(CurFwRules(ncur))

C26_FirewallFingerprintPersisted ==
    (engine = "agent" /\ nwrote /\ HasData(ncur.firewall)) =>
        nst.firewall = BuildNextState(ncur).firewall

\* the lines of the alerts of the last cycle with the given title
C27_Listed(title) ==
    UNION {SeqToSet(nmsgs[j].lines) : j \in AlertsTitled(title)}

\* C27: privileged-user detector, in every cycle with send_critical set.  A
\* crit alert is built iff some user of the current sudo set is not in the
\* stored set, it lists every such user, and the stored set becomes the
\* current set.
C27_NewSudoListed ==
    (nran /\ ncfg.send_critical) =>
        LET new == SudoSet(ncur.users) \ PrevSudo(nstPrev)
        IN  /\ (AlertsTitled("new_sudo_user") # {}) <=> (new # {})
            /\ \A j \in AlertsTitled("new_sudo_user") : nmsgs[j].level = "crit"
            /\ new \subseteq C27_Listed("new_sudo_user")
            /\ nwrote => SeqToSet(nst.sudo_users.v) = SudoSet(ncur.users)

\* C28: port detector, in every cycle with send_warning set.  One warn alert
\* is built iff the current set of (protocol, address, port) tuples differs
\* from the stored set, it lists every added and every removed tuple, and the
\* stored set becomes the current set.
C28_PortChangesListed ==
    (nran /\ ncfg.send_warning) =>
        LET added   == PortSet(ncur.ports) \ PrevPorts(nstPrev)
            removed == PrevPorts(nstPrev) \ PortSet(ncur.ports)
        IN  /\ Cardinality(AlertsTitled("ports_changed")) =
                  (IF added # {} \/ removed # {} THEN 1 ELSE 0)
            /\ \A j \in AlertsTitled("ports_changed") : nmsgs[j].level = "warn"
            /\ {PortLine(t) : t \in added \cup removed}
                  \subseteq C27_Listed("ports_changed")
            /\ nwrote => SeqToSet(nst.ports.v) = PortSet(ncur.ports)

\* C29: source-IP detector, in every cycle with send_warning set.  A warn
\* alert is built iff some address other than 0.0.0.0 is in the current
\* login-source set and not in the stored set, it lists every such address
\* (so each new address is reported in the cycle where it first appears), and
\* the stored set becomes the current set.
C29_NewIpsListed ==
    (nran /\ ncfg.send_warning) =>
        LET new == {ip \in CurIps(ncur) \ PrevIps(nstPrev) : ip # "0.0.0.0"}
        IN  /\ (AlertsTitled("new_ip") # {}) <=> (new # {})
            /\ \A j \in AlertsTitled("new_ip") : nmsgs[j].level = "warn"
            /\ new \subseteq C27_Listed("new_ip")
            /\ nwrote => SeqToSet(nst.ips.v) = CurIps(ncur)

\* C30: for every key other than meta that the previous snapshot has and the
\* current one lacks, _diff records {before: previous value, after: null};
\* for a key with equal values in both it records nothing.
C30_RemovedKeys ==
    (dpc = "done" /\ dprev.present) =>
        \A k \in DOMAIN dprev.doc \ {"meta"} :
            /\ k \notin DOMAIN dcur =>
                  /\ k \in DOMAIN dout.data.changed
                  /\ dout.data.changed[k] = [before |-> dprev.doc[k], after |-> Null]
            /\ (k \in DOMAIN dcur /\ dcur[k] = dprev.doc[k]) =>
                  k \notin DOMAIN dout.data.changed

\* the users category disappeared, ports is unchanged and meta moved on
C30_Witness ==
    /\ dpc = "done" /\ dprev.present
    /\ DOMAIN dprev.doc = {"meta", "ports", "users"} /\ DOMAIN dcur = {"meta", "ports"}
    /\ dprev.doc["users"] = "v1"
    /\ dprev.doc["ports"] = dcur["ports"]
    /\ dprev.doc["meta"] # dcur["meta"]
    /\ dout.data.changed = [k \in {"users"} |-> [before |-> "v1", after |-> Null]]

\* the two snapshots hold the same categories with the same results
C31_SameCategories ==
    /\ DOMAIN dprev.doc \ {"meta"} = DOMAIN dcur \ {"meta"}
    /\ \A k \in DOMAIN dcur \ {"meta"} : dprev.doc[k] = dcur[k]

\* C31: meta is never a key of changed, for any pair of snapshots; and for the
\* snapshots of two consecutive cycles (both hold meta) whose categories are
\* all equal the diff is {status ok, details "no_changes", changed {}},
\* whatever the two timestamps are.
C31_MetaExcluded ==
    dpc = "done" =>
        /\ "meta" \notin DOMAIN dout.data.changed
        /\ (/\ dprev.present
            /\ "meta" \in DOMAIN dprev.doc /\ "meta" \in DOMAIN dcur
            /\ C31_SameCategories) =>
              dout = [status |-> "ok", details |-> "no_changes",
                      data |-> [changed |-> EmptyDoc]]

\* two cycles with the same ports and ssh results and different timestamps
C31_Witness ==
    /\ dpc = "done" /\ dprev.present
    /\ DOMAIN dprev.doc = {"meta", "ports", "ssh"} /\ DOMAIN dcur = {"meta", "ports", "ssh"}
    /\ dprev.doc["meta"] = "v1" /\ dcur["meta"] = "v2"
    /\ C31_SameCategories
    /\ dout.details = "no_changes" /\ dout.status = "ok"

\* C32: a cycle starts at once when the supervisor starts, and after that an
\* interval wait separates every two consecutive cycles: no cycle starts
\* while the cycle before it has not been followed by a wait.
C32_WaitBetweenCycles ==
    [][/\ (spc = "first" /\ spc' # "first" /\ ~argv.no_agent) => inflight' > inflight
       /\ inflight' > inflight => lastCycle = "none"]_vars

\* C33: once stop has been requested the loop starts no further cycle; a wait
\* that is pending when stop is set ends by returning to the loop test (it
\* neither times out nor raises), and the loop test then ends the loop.
C33_StopEndsLoop ==
    [][stop => /\ inflight' <= inflight
               /\ (agentT = "sleep" /\ agentT' # "sleep") => agentT' \in {"check", "cancelled"}
               /\ (agentT = "check" /\ agentT' # "check") => agentT' \in {"done", "cancelled"}]_vars

\* a termination signal arrived, the loop finished by itself while the other
\* tasks are still awaited, and no cycle is running
C33_Witness ==
    /\ spc = "wait" /\ agentT = "done"
    /\ stop /\ stopBy = "term"
    /\ inflight = 0 /\ lastCycle = "none"

\* the restart watcher requests a relaunch in this step
C38_WatcherFires == watchT = "sleep" /\ watchT' = "done"

C39_BotFailureStops ==
    botT = "raised" =>
        /\ spc = "wait" => ENABLED WaitReturns
        /\ spc \in {"gather", "exec", "exit", "terminated"} =>
              /\ stop
              /\ agentT \in {"none", "done", "raised", "cancelled"}
              /\ watchT \in {"done", "cancelled"}
        /\ spc = "exec" => restart
        /\ spc = "terminated" => (pid \notin livePids /\ inflight = 0)

\* the bot raised while the sampling loop was running; the loop was
\* cancelled and the process ended without a relaunch
C39_Witness ==
    /\ botT = "raised" /\ spc = "terminated"
    /\ agentT = "cancelled" /\ watchT = "cancelled"
    /\ stopBy = "finally" /\ ~restart /\ launch.kind = "user"

\* an alert of one of the five detectors the two engines share
C37_Shared(msg) ==
    msg.title \notin {"firewall_disabled", "firewall_enabled", "firewall_rules"}

\* the five slices of a rebuilt state that both engines store
C37_Slices(st) ==
    <<st.ips, st.ports, st.sudo_users, st.updates_count, st.logs_status>>

\* C37: on the same configuration, stored state and snapshot the two engines
\* build the same alerts for IPs, ports, sudo users, updates and log severity
\* (same severities, same texts, same order), and their rebuilt states agree
\* on ips, ports, sudo_users, updates_count and logs_status; the alerts the
\* cycle has built are those alerts.
C37_EnginesAgree ==
    (ncycles > 0 /\ ~nraised) =>
        LET byAgent   == NotifyMsgs(ncfg, nstPrev, ncur)
            byManager == ManagerMsgs(ncfg, nstPrev, ncur)
        IN  /\ SelectSeq(byManager, C37_Shared) = byAgent
            /\ C37_Slices(BuildNextState(ncur)) = C37_Slices(NotifyNextState(ncur))
            /\ nran => SelectSeq(nmsgs, C37_Shared) = byAgent
            /\ nwrote =>
                 C37_Slices(nst) = C37_Slices(NotifyNextState(ncur))

\* a cycle of the class-based engine that built a critical and a warning
\* alert of the shared detectors next to a firewall alert
C37_Witness ==
    /\ engine = "manager" /\ nran /\ nwrote
    /\ \E j \in DOMAIN nmsgs : ~C37_Shared(nmsgs[j])
    /\ \E j, k \in DOMAIN nmsgs :
          /\ j < k /\ C37_Shared(nmsgs[j]) /\ C37_Shared(nmsgs[k])
          /\ nmsgs[j].level = "crit" /\ nmsgs[k].level = "warn"

\* the configured value is missing, null, a zero, an empty text or list
C34_MissingOrZero ==
    \/ icfg.k \in {"absent", "null"}
    \/ icfg.k = "int" /\ icfg.v = 0
    \/ icfg.k = "float" /\ icfg.special = "finite" /\ icfg.whole = 0 /\ ~icfg.frac
    \/ icfg.k = "str" /\ icfg.v = <<>>
    \/ icfg.k = "list" /\ icfg.v = 0

\* the configured value is not a number: a text with a letter or with no
\* digit at all, a list, a NaN
C34_NonNumeric ==
    \/ icfg.k = "str" /\ \E i \in DOMAIN icfg.v : icfg.v[i] = "a"
    \/ icfg.k = "str" /\ \A i \in DOMAIN icfg.v : icfg.v[i] \notin DigitChars
    \/ icfg.k = "list"
    \/ icfg.k = "float" /\ icfg.special = "nan"

\* the configured value is a finite number below 2 other than zero
C34_FiniteBelowTwo ==
    \/ icfg.k = "int" /\ icfg.v < 2 /\ icfg.v # 0
    \/ icfg.k = "float" /\ icfg.special = "finite" /\ icfg.whole < 2
       /\ (icfg.whole # 0 \/ icfg.frac)

\* the configured value is a number below 2 other than zero
C34_BelowTwo ==
    \/ C34_FiniteBelowTwo
    \/ icfg.k = "float" /\ icfg.special = "-inf"

\* C34 as stated: the interval is an integer >= 2; a missing, zero or
\* non-numeric value gives 10; every configured number below 2, negative
\* ones included, gives 2.
C34_AsStated ==
    ipc = "done" =>
        /\ ival \in Int /\ ival >= 2
        /\ (C34_MissingOrZero \/ C34_NonNumeric) => ival = 10
        /\ C34_BelowTwo => ival = 2

\* C34 (amended): the interval is an integer >= 2; a missing, zero or
\* non-numeric value and an infinite one give 10; every finite configured
\* number below 2 other than zero gives 2 (true counts as 1, false as 0); a
\* finite number from 2 on gives its integer part.
C34_EffectiveInterval ==
    ipc = "done" =>
        /\ ival \in Int /\ ival >= 2
        /\ (C34_MissingOrZero \/ C34_NonNumeric) => ival = 10
        /\ (icfg.k = "float" /\ icfg.special \in {"inf", "-inf"}) => ival = 10
        /\ C34_FiniteBelowTwo => ival = 2
        /\ icfg.k = "bool" => ival = (IF icfg.v THEN 2 ELSE 10)
        /\ (icfg.k = "int" /\ icfg.v >= 2) => ival = icfg.v
        /\ (icfg.k = "float" /\ icfg.special = "finite" /\ icfg.whole >= 2) =>
              ival = icfg.whole

\* a negative configured interval was clamped to 2
C34_Witness ==
    /\ ipc = "done"
    /\ icfg.k = "int" /\ icfg.v = -3
    /\ ival = 2

\* C35: every write of the restart marker and of the pid file is an atomic
\* replace: whoever reads or stats one of the two files finds a complete
\* text in it, never an empty or partly written file.
C35_NoTornRead ==
    fseen.k \in {"text", "stat"} => fseen.text \in FileTexts(fseen.name)

\* C36: the query service only reads the persisted state: whatever message
\* is handled (status, report, diff, endpoints, start, help, by command or by
\* button, allowed sender or not), the latest snapshot, the latest diff and
\* notify_state.json are afterwards what they were before; by induction no
\* sequence of queries creates, modifies or deletes one of them.
C36_QueriesOnlyRead ==
    [][bcount' # bcount => bfiles' = bfiles]_vars

\* two queries were answered, the last one a report for an allowed user that
\* shows the stored snapshot and diff, and the files are still those
C36_Witness ==
    /\ bcount = 2
    /\ bmsg.sender.has /\ bmsg.sender.id \in ballowed
    /\ breply.kind = "report"
    /\ breply.data = <<"v1", "v1">>
    /\ bfiles["snapshot"] = "v1" /\ bfiles["diff"] = "v1"
    /\ bfiles["notify_state"] = "none"

\* the sender of the last message is in the allowed-user set
C40_SenderAllowed == bmsg.sender.has /\ bmsg.sender.id \in ballowed

\* C40: for every inbound message that is a slash command or a menu-button
\* text, the reply carries snapshot, diff, status or endpoint data only if the
\* sender's id is in the allowed-user set; every other sender, a message
\* without sender included, gets the access-denied text (with the sender's
\* own id, if any) and nothing else.
C40_AccessControl ==
    bcount > 0 =>
        /\ breply.kind \in {"status", "endpoints", "diff", "report", "start", "help"}
              => C40_SenderAllowed
        /\ breply.data # <<>> => C40_SenderAllowed
        /\ (bmsg.text \in CommandTexts \cup ButtonTexts /\ ~C40_SenderAllowed) =>
              breply = [kind |-> "denied", uid |-> bmsg.sender, data |-> <<>>]
        /\ (bmsg.text \in CommandTexts \cup ButtonTexts /\ C40_SenderAllowed) =>
              breply.kind \notin {"denied", ""}

\* a user outside the allowed set pressed the report button while a snapshot
\* is stored, and was answered with the access-denied text
C40_Witness ==
    /\ bcount > 0
    /\ bmsg = [sender |-> [has |-> TRUE, id |-> 3], text |-> "[report] Otchyot"]
    /\ bfiles["snapshot"] = "v1"
    /\ breply.kind = "denied" /\ breply.data = <<>>

====
